---- MODULE Spec2Model ----
(***************************************************************************)
(* A state-machine model of CDSETool's core:                               *)
(*   - the concurrent executor        (cdsetool/_processing.py)            *)
(*   - the download engine            (cdsetool/download.py)               *)
(*   - the credential / token manager (cdsetool/credentials.py)            *)
(*   - the feature query              (cdsetool/query.py)                  *)
(*   - the status monitor             (cdsetool/monitor.py)                *)
(* Each component has its own group of variables and its specifications    *)
(* (SpecExec, SpecRefill, SpecBatch, SpecCred, SpecConstruct, SpecFile,    *)
(* SpecProduct, SpecQuery, SpecUrl, SpecFilter, SpecDescribe, SpecMonitor, *)
(* SpecRedirect); a specification leaves the other groups untouched.       *)
(***************************************************************************)
EXTENDS Integers, Sequences, FiniteSets, TLC

(***************************************************************************)
(* Bounds of the model.                                                    *)
(***************************************************************************)
MaxWorkers == 3
MaxInput == 3
MaxFeatures == 2
NumThreads == 2
MaxTime == 2
MaxPosts == 3
MaxChunks == 2
MaxPages == 2
MaxCursors == 2
MaxFetches == 3
MaxTerms == 2

VARIABLES
  \* ---- concurrent executor (_processing.py) ----
  worker,      \* the `fun` argument: "fun" or "_download_feature"
  workers,     \* the `workers` argument
  input,       \* the items the input iterable produces, in order
  pulled,      \* how many items next(iterator, None) has taken from it
  futures,     \* the `futures` list: ids of the pending tasks
  task,        \* per input position: the state of its future
  completed,   \* ids of the finished tasks, in completion order
  gpc,         \* where the generator stands
  toYield,     \* the part of `done` the for-loop has not yielded yet
  fillLeft,    \* iterations fill_futures still has to run
  results,     \* what the consumer has received, in order
  raisedBy,    \* the task whose exception reached the consumer (0: none)
  \* ---- download_features (download.py) ----
  options,     \* the options dictionary of download_features
  monitor,     \* the status monitor: "idle", "started" or "stopped"
  \* ---- Credentials (credentials.py) ----
  now,                    \* datetime.now(), in ticks
  access_token,           \* self.__access_token
  refresh_token,          \* self.__refresh_token
  access_token_expires,   \* self.__access_token_expires
  refresh_token_expires,  \* self.__refresh_token_expires
  lock,                   \* self.__lock: Free, or the thread that holds it
  constructed,            \* __init__: "running", "yes" or "failed"
  tpc,                    \* per thread: where it stands in get_session
  call,                   \* per thread: the locals and the record of its call
  session,                \* the session get_session returned last
  posts,                  \* POSTs sent to the token endpoint so far
  conc,                   \* pairs of threads whose calls, both made on an
                          \* expired access token, overlapped in time
  lastGood,               \* the last token validated right after its exchange
  lastExc,                \* the exception raised last
  lastMsg,                \* and its message
  username,               \* self.__username
  password,               \* self.__password
  netrc,                  \* the user's .netrc file
  \* ---- download_file and the file system (download.py) ----
  fpc,         \* where download_file stands
  attempts,    \* the `attempts` counter of the retry loop
  gets,        \* session.get calls made so far in this download
  fails,       \* attempts of this download that ended in `continue`
  fname,       \* the file being written, relative to the scratch directory
  size,        \* chunks the server sends for a complete body
  sent,        \* chunks of the current response written so far
  status,      \* the Status of the call: size and downloaded
  fresult,     \* what download_file returned
  fexc,        \* the exception that left download_file
  tempdirs,    \* the scratch directories that exist
  scratch,     \* the files of the current scratch directory: name -> bytes
  dest,        \* the destination directory
  \* ---- download_feature / download_nodes (download.py) ----
  mode,        \* "full" (download_feature) or "partial" (download_nodes)
  ppc,         \* where the download of the product stands
  overwrite_existing,  \* the option of that name
  feat,        \* the feature to download
  todo,        \* filtered files still to download
  started,     \* the files download_file was called for, in order
  failedAt,    \* Len(started) when a step of download_nodes failed, else 0
  copied,      \* progress of shutil.copy / shutil.move into the destination
  presult,     \* what the download of the product returned
  pexc,        \* the exception that left it
  dest0,       \* the destination directory as it was before the download
  debugs,      \* calls of log.debug so far
  \* ---- FeatureQuery (query.py) ----
  pages,          \* the server's pages: the ids of the features of each
  reportsTotal,   \* the server reports totalResults (with exactCount=1)
  features,       \* self.features: the buffer
  odata_added,    \* the buffered features that were given a 'Checksum' key
  next_url,       \* self.next_url: the page it points to, NoUrl for None
  exact_count,    \* the exactCount parameter self.next_url carries
  total_results,  \* self.total_results: <<>> for None, else <<n>>
  cursors,        \* the _FeatureIterator objects: index, what each yielded
  qpc,            \* the operation in progress: "idle", "getitem", "len", ...
  qcall,          \* its arguments and what it has done so far
  qresult,        \* how the last operation ended
  getlog,         \* the pages received from the server, in order
  \* ---- _query_url (query.py) ----
  search_terms,   \* the search terms: a sequence of key and value
  upc,            \* where _query_url stands
  query_list,     \* the `query_list` of _query_url
  uresult,        \* what _query_url returned or raised
  \* ---- filter_files (download.py) ----
  manifest_file,  \* the manifest: its basename and the paths it lists
  fpattern,       \* the `pattern` argument
  exclude,        \* the `exclude` argument
  xpc,            \* where filter_files stands
  elems,          \* entries of the manifest the loop has gone through
  paths,          \* the `paths` list
  \* ---- describe_collection (query.py) ----
  _describe_docs, \* the module's cache: collection -> document
  dpc,            \* per thread: where its describe_collection stands
  dcall,          \* per thread: the locals and the record of its call
  dreqs,          \* HTTP requests for describe documents so far
  described,      \* per collection: what its first successful describe
                  \* returned
  \* ---- StatusMonitor and Status (monitor.py) ----
  m_status,       \* StatusMonitor.__status: the handles in progress
  m_done,         \* StatusMonitor.__done: the handles that are done
  handle,         \* per download thread: its handle (0: none) and where
                  \* the thread stands with it
  handles,        \* handles created so far
  drawn,          \* the counts the monitor thread printed last
  \* ---- _follow_redirect (download.py) ----
  server,         \* what the server answers to a HEAD of each URL
  rinput,         \* the `url` argument
  rurl,           \* the local `url`
  rresponse,      \* the local `response`
  rpc,            \* where _follow_redirect stands
  rheads,         \* the URLs of the HEAD requests sent, in order
  rresult         \* what _follow_redirect returned

execVars == <<worker, workers, input, pulled, futures, task, completed, gpc, toYield,
              fillLeft, results, raisedBy>>
batchVars == <<options, monitor>>

credVars == <<now, access_token, refresh_token, access_token_expires,
              refresh_token_expires, lock, constructed, tpc, call, session,
              posts, conc, lastGood, lastExc, lastMsg, username, password,
              netrc>>

fileVars == <<fpc, attempts, gets, fails, fname, size, sent, status, fresult,
              fexc, tempdirs, scratch, dest>>

prodVars == <<mode, ppc, overwrite_existing, feat, todo, started, failedAt,
              copied, presult, pexc, dest0, debugs>>

queryVars == <<pages, reportsTotal, features, odata_added, next_url,
               exact_count, total_results,
               cursors, qpc, qcall, qresult, getlog>>

urlVars == <<search_terms, upc, query_list, uresult>>

filterVars == <<manifest_file, fpattern, exclude, xpc, elems, paths>>

descVars == <<_describe_docs, dpc, dcall, dreqs, described>>

monVars == <<m_status, m_done, handle, handles, drawn>>

redirVars == <<server, rinput, rurl, rresponse, rpc, rheads, rresult>>

vars == <<execVars, batchVars, credVars, fileVars, prodVars, queryVars,
          urlVars, filterVars, descVars, monVars, redirVars>>

\* What the actions of one group leave alone.
notExec == <<batchVars, credVars, fileVars, prodVars, queryVars, urlVars,
            filterVars, descVars,
            monVars, redirVars>>
notBatch == <<credVars, fileVars, prodVars, queryVars, urlVars,
            filterVars, descVars,
            monVars, redirVars>>
notCred == <<execVars, batchVars, fileVars, prodVars, queryVars, urlVars,
            filterVars, descVars,
            monVars, redirVars>>
notFile == <<execVars, batchVars, credVars, prodVars, queryVars, urlVars,
            filterVars, descVars,
            monVars, redirVars>>
notProd == <<execVars, batchVars, credVars, queryVars, urlVars,
            filterVars, descVars,
            monVars, redirVars>>
notQuery == <<execVars, batchVars, credVars, fileVars, prodVars, urlVars,
            filterVars, descVars,
            monVars, redirVars>>
notUrl == <<execVars, batchVars, credVars, fileVars, prodVars, queryVars,
           filterVars, descVars,
            monVars, redirVars>>
notFilter == <<execVars, batchVars, credVars, fileVars, prodVars, queryVars,
              urlVars, descVars,
            monVars, redirVars>>
notDesc == <<execVars, batchVars, credVars, fileVars, prodVars, queryVars,
            urlVars, filterVars, monVars, redirVars>>
notMon == <<execVars, batchVars, credVars, fileVars, prodVars, queryVars,
           urlVars, filterVars, descVars, redirVars>>
notRedir == <<execVars, batchVars, credVars, fileVars, prodVars, queryVars,
             urlVars, filterVars, descVars, monVars>>

(***************************************************************************)
(* Values.                                                                 *)
(***************************************************************************)
None == "None"

\* What calling the worker function on an item does: it returns `val` or it
\* raises; `cause` says why (for the download engine's failures).
Ret(v, c) == [kind |-> "ret", val |-> v, cause |-> c]
Raise(c) == [kind |-> "raise", val |-> None, cause |-> c]
\* The options dictionary where download_features is not running.
NoOptions == [has_filter_pattern |-> FALSE, filter_pattern |-> None]

NoOutcome == [kind |-> "none", val |-> None, cause |-> "none"]

Max(a, b) == IF a >= b THEN a ELSE b

\* All sequences over S of length at most n.
SeqsUpTo(S, n) == UNION {[1..k -> S] : k \in 0..n}

\* A token as the server issues it: its serial number and its iat and exp
\* claims. NoToken is the None of __init__ and the empty string alike.
Token(n, issued, expires) == [id |-> n, iat |-> issued, exp |-> expires]
NoToken == Token(0, 0, 0)

\* Thread 0 runs Credentials.__init__; threads 1..NumThreads are the
\* download workers that call get_session.
CallerThreads == 1..NumThreads
Threads == 0..NumThreads

\* self.__lock holds the thread that owns it, or Free.
Free == 0 - 1

\* refresh_expire_delta = None: no exchange was made in this run.
NoDelta == 0 - 1

\* The locals of one run of __ensure_tokens (refresh_expire_delta, data)
\* and the record of the call: the clock its test of the expiries read,
\* whether the access token had expired when get_session was called, the
\* grants it sent, the token it validated. Of a call that has ended only
\* `posted` is kept: whether it sent a grant.
NewCall ==
  [ refresh_expire_delta |-> NoDelta, grant_type |-> None, seenNow |-> 0,
    expiredAtCall |-> FALSE, grants |-> <<>>, validated |-> NoToken,
    posted |-> FALSE ]

\* The record of a call that has ended.
Ended(c) == [NewCall EXCEPT !.posted = c.posted]

\* A session as get_session returns it: the thread it went to, the token
\* of its Authorization header, and the token that call had validated.
Session(t, tok, val) == [thread |-> t, token |-> tok, validated |-> val]
NoSession == Session(0, NoToken, NoToken)

\* Bytes on disk: a sequence of chunks. Chunk i of a body is "fresh" when
\* it was written in the latest attempt to download its file, "stale" when
\* an earlier attempt wrote it, "old" when it was on disk before.
Chunk(from, i) == [from |-> from, no |-> i]
Stream(n) == [i \in 1..n |-> Chunk("fresh", i)]
Stale(bytes) == [i \in 1..Len(bytes) |-> Chunk("stale", bytes[i].no)]

\* A Status as monitor.status() gives it (monitor.py, lines 205-207).
NewStatus == [size |-> 0, downloaded |-> 0]

\* A directory: a function from the names of its entries. An entry of the
\* destination is a file (its bytes) or a product directory (its files).
NoFiles == [n \in {} |-> <<>>]
File(bytes) == [kind |-> "file", data |-> bytes, files |-> NoFiles]
Dir(fs) == [kind |-> "dir", data |-> <<>>, files |-> fs]
Put(d, name, x) == [n \in DOMAIN d \cup {name} |-> IF n = name THEN x ELSE d[n]]
Directory(ex, es) == [exists |-> ex, entries |-> es]

\* A string is the sequence of its characters; None is NotGiven.
Given(str) == [given |-> TRUE, str |-> str]

NotGiven == [given |-> FALSE]

\* The message of an exception.
Message(text) == [text |-> text]

NoMessage == Message("None")

(***************************************************************************)
(* The state of a component that a specification does not run.             *)
(***************************************************************************)
ExecIdle ==
  /\ worker = None /\ workers = 1 /\ input = <<>> /\ pulled = 0
  /\ futures = {} /\ task = <<>> /\ completed = <<>> /\ gpc = "idle"
  /\ toYield = {} /\ fillLeft = 0 /\ results = <<>> /\ raisedBy = 0

BatchIdle ==
  /\ options = NoOptions /\ monitor = "idle"

CredIdle ==
  /\ now = 0 /\ access_token = NoToken /\ refresh_token = 0
  /\ access_token_expires = 0 /\ refresh_token_expires = 0 /\ lock = Free
  /\ constructed = "no" /\ tpc = [t \in Threads |-> "idle"]
  /\ call = [t \in Threads |-> NewCall]
  /\ session = NoSession /\ posts = 0 /\ conc = {}
  /\ lastGood = NoToken /\ lastExc = None /\ lastMsg = NoMessage
  /\ username = NotGiven /\ password = NotGiven /\ netrc = "nofile"

FileIdle ==
  /\ fpc = "idle" /\ attempts = 0 /\ gets = 0 /\ fails = 0 /\ fname = None
  /\ size = 0 /\ sent = 0 /\ status = NewStatus /\ fresult = None /\ fexc = None
  /\ tempdirs = {} /\ scratch = NoFiles /\ dest = Directory(FALSE, NoFiles)

ProdIdle ==
  /\ mode = None /\ ppc = "idle" /\ overwrite_existing = FALSE
  /\ feat = None /\ todo = <<>> /\ started = <<>> /\ failedAt = 0
  /\ copied = 0 /\ presult = None /\ pexc = None
  /\ dest0 = Directory(FALSE, NoFiles) /\ debugs = 0

QueryIdle ==
  /\ pages = <<>> /\ reportsTotal = FALSE /\ features = <<>>
  /\ odata_added = {}
  /\ next_url = 0 /\ exact_count = "none" /\ total_results = <<>>
  /\ cursors = <<>>
  /\ qresult = [op |-> "none", kind |-> "none"]
  /\ qpc = "none" /\ qcall = [op |-> "none"] /\ getlog = <<>>

UrlIdle ==
  /\ search_terms = <<>> /\ upc = "none" /\ query_list = <<>>
  /\ uresult = None

RedirIdle ==
  /\ server = <<>> /\ rinput = 0 /\ rurl = 0 /\ rresponse = <<>>
  /\ rpc = "none" /\ rheads = <<>> /\ rresult = 0

MonIdle ==
  /\ m_status = <<>> /\ m_done = <<>> /\ handle = <<>> /\ handles = 0
  /\ drawn = <<>>

DescIdle ==
  /\ _describe_docs = <<>> /\ dpc = <<>> /\ dcall = <<>> /\ dreqs = 0
  /\ described = <<>>

FilterIdle ==
  /\ manifest_file = [basename |-> None, entries |-> <<>>]
  /\ fpattern = <<>> /\ exclude = FALSE /\ xpc = "none" /\ elems = 0
  /\ paths = <<>>

(***************************************************************************)
(* The worker functions the executor is run with.                          *)
(***************************************************************************)

\* Items of the abstract input: None, an item fun returns for, an item fun
\* raises for.
ExecItems ==
  { [none |-> TRUE, raises |-> FALSE],
    [none |-> FALSE, raises |-> FALSE],
    [none |-> FALSE, raises |-> TRUE] }

\* The abstract worker function.
fun(item) == IF item.raises THEN {Raise("fun")} ELSE {Ret("ok", "ok")}

\* MANIFEST_BASENAMES: the collections that have a manifest.
MANIFEST_BASENAMES ==
  [c \in {"SENTINEL-1", "SENTINEL-2", "SENTINEL-3"} |->
     IF c = "SENTINEL-3" THEN "manifest.xml" ELSE "manifest.safe"]

\* filename = title + ".zip"
ZipName(title) == title \o ".zip"

\* What download_nodes(feature, path, pattern, options) does, by the place
\* that ends it: a missing title or a collection without manifest is a
\* KeyError of a dictionary lookup; a failed manifest download, a failed
\* filter_files and a failed inner download return None; an exception of
\* download_file that is not caught there (credentials) passes through.
download_nodes_outcomes(feature) ==
  IF feature.title = None
    THEN {Raise("no_title")}
  ELSE IF feature.coll \notin DOMAIN MANIFEST_BASENAMES
    THEN {Raise("unsupported_collection")}
  ELSE { Ret(None, "manifest_download"),
         Ret(None, "manifest_parse"),
         Ret(None, "inner_file"),
         Raise("credentials"),
         Ret(feature.title, "ok") }

\* What download_feature(feature, path, options) does: None for a feature
\* without URL or title, the file name when the file is there already or
\* was downloaded, None after ten failed attempts; an exception of
\* get_session that is not caught there passes through.
download_feature_outcomes(feature) ==
  IF feature.url = None \/ feature.title = None
    THEN {Ret(None, "bad_url_or_title")}
    ELSE { Ret(ZipName(feature.title), "exists"),
           Ret(None, "retries_exhausted"),
           Raise("credentials"),
           Ret(ZipName(feature.title), "ok") }

\* _download_feature(feature), the worker function of download_features.
_download_feature(feature) ==
  IF ~options.has_filter_pattern
    THEN {Raise("no_filter_pattern_key")}
  ELSE IF options.filter_pattern # None
    THEN download_nodes_outcomes(feature)
    ELSE download_feature_outcomes(feature)

\* The `fun` argument of _concurrent_process, applied to an item.
Apply(f, item) ==
  IF f = "fun" THEN fun(item) ELSE _download_feature(item)

(***************************************************************************)
(* The concurrent executor, _concurrent_process(fun, iterable, workers).   *)
(***************************************************************************)

\* low_water_mark = int(workers * 1.5)
low_water_mark(w) == (3 * w) \div 2

\* `item is not None` in submit_item.
ItemIsNone(item) == item.none

\* The range of fill_futures' for-loop, computed once when the loop starts.
FillRange(w, futs) == Max(0, low_water_mark(w) - Cardinality(futs))

Positions == 1..Len(input)
Submitted == {i \in Positions : task[i].st # "unsubmitted"}
Running == {i \in Positions : task[i].st = "running"}
Queued == {i \in Positions : task[i].st = "queued"}
DoneTasks == {i \in Positions : task[i].st = "done"}

NewTask == [st |-> "unsubmitted", out |-> NoOutcome]

ExecInit(f, inputs) ==
  /\ worker = f
  /\ workers \in 1..MaxWorkers
  /\ input \in inputs
  /\ pulled = 0
  /\ futures = {}
  /\ task = [i \in 1..Len(input) |-> NewTask]
  /\ completed = <<>>
  /\ gpc = "created"
  /\ toYield = {}
  /\ fillLeft = 0
  /\ results = <<>>
  /\ raisedBy = 0

\* The consumer asks for the first result: the generator body starts, and
\* fill_futures() is called for the first batch.
GenStart ==
  /\ gpc = "created"
  /\ gpc' = "fill"
  /\ fillLeft' = FillRange(workers, futures)
  /\ UNCHANGED <<worker, workers, input, pulled, futures, task, completed, toYield,
                 results, raisedBy>>
  /\ UNCHANGED notExec

\* One iteration of fill_futures: submit_item() takes the next item of the
\* iterator (None when it is exhausted) and submits it unless it is None.
SubmitItem ==
  /\ gpc = "fill"
  /\ fillLeft > 0
  /\ fillLeft' = fillLeft - 1
  /\ IF pulled < Len(input)
       THEN /\ pulled' = pulled + 1
            /\ IF ItemIsNone(input[pulled + 1])
                 THEN UNCHANGED <<futures, task>>
                 ELSE /\ futures' = futures \cup {pulled + 1}
                      /\ task' = [task EXCEPT ![pulled + 1].st = "queued"]
       ELSE UNCHANGED <<pulled, futures, task>>
  /\ UNCHANGED <<worker, workers, input, completed, gpc, toYield, results, raisedBy>>
  /\ UNCHANGED notExec

\* fill_futures has returned: `while futures` either goes on to wait() or
\* ends the loop, the with-block and the generator.
FillDone ==
  /\ gpc = "fill"
  /\ fillLeft = 0
  /\ gpc' = IF futures = {} THEN "end" ELSE "wait"
  /\ UNCHANGED <<worker, workers, input, pulled, futures, task, completed, toYield,
                 fillLeft, results, raisedBy>>
  /\ UNCHANGED notExec

\* A worker thread of the pool takes the oldest queued task.
StartTask(i) ==
  /\ task[i].st = "queued"
  /\ \A j \in Queued : i <= j
  /\ Cardinality(Running) < workers
  /\ task' = [task EXCEPT ![i].st = "running"]
  /\ UNCHANGED <<worker, workers, input, pulled, futures, completed, gpc, toYield,
                 fillLeft, results, raisedBy>>
  /\ UNCHANGED notExec

\* A running task finishes: fun(item) returned or raised.
CompleteTask(i) ==
  /\ task[i].st = "running"
  /\ \E o \in Apply(worker, input[i]) :
       task' = [task EXCEPT ![i] = [st |-> "done", out |-> o]]
  /\ completed' = Append(completed, i)
  /\ UNCHANGED <<worker, workers, input, pulled, futures, gpc, toYield, fillLeft,
                 results, raisedBy>>
  /\ UNCHANGED notExec

\* wait(futures, return_when=FIRST_COMPLETED) returns once a pending future
\* is done, with all that are done by then; futures = list(not_done).
Wait ==
  /\ gpc = "wait"
  /\ futures \cap DoneTasks # {}
  /\ toYield' = futures \cap DoneTasks
  /\ futures' = futures \ DoneTasks
  /\ gpc' = "yielding"
  /\ UNCHANGED <<worker, workers, input, pulled, task, completed, fillLeft, results,
                 raisedBy>>
  /\ UNCHANGED notExec

\* `for future in done: yield future.result()`: `done` is a set, so the loop
\* takes its members in no particular order. result() returns the value,
\* which is yielded, or re-raises the task's exception, which leaves the
\* with-block (shutdown) on its way to the consumer.
Yield(i) ==
  /\ gpc = "yielding"
  /\ i \in toYield
  /\ toYield' = toYield \ {i}
  /\ IF task[i].out.kind = "ret"
       THEN /\ results' = Append(results, [task |-> i, val |-> task[i].out.val])
            /\ gpc' = "suspended"
            /\ UNCHANGED raisedBy
       ELSE /\ gpc' = "shutdown"
            /\ raisedBy' = i
            /\ UNCHANGED results
  /\ UNCHANGED <<worker, workers, input, pulled, futures, task, completed, fillLeft>>
  /\ UNCHANGED notExec

\* The consumer asks for the next result: the for-loop goes on, and after
\* its last member fill_futures() is called.
Resume ==
  /\ gpc = "suspended"
  /\ IF toYield # {}
       THEN /\ gpc' = "yielding"
            /\ UNCHANGED fillLeft
       ELSE /\ gpc' = "fill"
            /\ fillLeft' = FillRange(workers, futures)
  /\ UNCHANGED <<worker, workers, input, pulled, futures, task, completed, toYield,
                 results, raisedBy>>
  /\ UNCHANGED notExec

\* The consumer closes the generator instead: GeneratorExit is raised at the
\* yield and leaves the with-block.
Close ==
  /\ gpc = "suspended"
  /\ gpc' = "shutdown"
  /\ UNCHANGED <<worker, workers, input, pulled, futures, task, completed, toYield,
                 fillLeft, results, raisedBy>>
  /\ UNCHANGED notExec

\* A shutdown that does not wait (the fault AllRun is tested against).
NoWait(t) == TRUE
\* shutdown(wait=True) returns: every submitted task has run.
AllRun(t) == \A i \in DOMAIN t : t[i].st \in {"unsubmitted", "done"}

\* Leaving `with ThreadPoolExecutor(...)` calls shutdown(wait=True), which
\* returns when every submitted task has run.
Shutdown ==
  /\ gpc = "shutdown"
  /\ AllRun(task)
  /\ gpc' = IF raisedBy # 0 THEN "raised" ELSE "closed"
  /\ UNCHANGED <<worker, workers, input, pulled, futures, task, completed, toYield,
                 fillLeft, results, raisedBy>>
  /\ UNCHANGED notExec

(***************************************************************************)
(* SpecExec: the executor with an abstract worker function.                *)
(***************************************************************************)

InitExec ==
  /\ ExecInit("fun", SeqsUpTo(ExecItems, MaxInput))
  /\ BatchIdle
  /\ CredIdle
  /\ FileIdle
  /\ ProdIdle
  /\ QueryIdle
  /\ UrlIdle
  /\ FilterIdle
  /\ DescIdle
  /\ MonIdle
  /\ RedirIdle

NextExec ==
  \/ GenStart
  \/ SubmitItem
  \/ FillDone
  \/ \E i \in Positions : StartTask(i)
  \/ \E i \in Positions : CompleteTask(i)
  \/ Wait
  \/ \E i \in Positions : Yield(i)
  \/ Resume
  \/ Close
  \/ Shutdown

SpecExec == InitExec /\ [][NextExec]_vars

(***************************************************************************)
(* Claims about the executor.                                              *)
(***************************************************************************)

\* fun raises for no item of the input.
FunNeverRaises == \A i \in Positions : ~input[i].raises

\* How often the consumer has received the result of task i.
TimesYielded(i) == Cardinality({k \in 1..Len(results) : results[k].task = i})

\* C1: when the worker function never raises, the executor, once it has
\* ended, has yielded exactly one result per item of the input: as many
\* results as items, none dropped, none yielded twice.
C1_OneResultPerItem ==
  (gpc = "end" /\ FunNeverRaises) =>
    /\ Len(results) = Len(input)
    /\ \A i \in Positions : TimesYielded(i) = 1

\* The place of task i in the order of completion.
CompletedAt(i) == CHOOSE k \in 1..Len(completed) : completed[k] = i

\* C12: results are yielded in the order in which their tasks completed:
\* of two results, the one yielded first is of the task that completed
\* first.
C12_CompletionOrder ==
  \A j \in 1..Len(results), k \in 1..Len(results) :
    j < k => CompletedAt(results[j].task) < CompletedAt(results[k].task)

\* C13: when the worker function always returns, the executor ends only
\* when the input is exhausted and no task is pending.
C13_EndsOnlyWhenExhausted ==
  (gpc = "end" /\ FunNeverRaises) =>
    /\ pulled = Len(input)
    /\ futures = {}

\* C14: when the exception of a task reaches the consumer, the result of
\* every task that completed (and returned) before that task has been
\* yielded.
C14_NoResultLostOnRaise ==
  raisedBy # 0 =>
    \A i \in DoneTasks :
      (task[i].out.kind = "ret" /\ CompletedAt(i) < CompletedAt(raisedBy)) =>
        TimesYielded(i) = 1

\* C15: once the consumer has closed the generator, no further item is
\* pulled from the input, and the close returns only when every task that
\* was submitted has run.
C15_CloseCompletes ==
  [][/\ gpc \in {"shutdown", "closed"} => pulled' = pulled
     /\ gpc' = "closed" =>
          \A i \in Positions : task'[i].st \in {"unsubmitted", "done"}]_vars

\* The generator was closed after its first result; the other tasks that
\* had been submitted have completed, their results not yielded.
C15_Witness ==
  /\ gpc = "closed"
  /\ Len(results) = 1
  /\ Cardinality(DoneTasks) > 1

(***************************************************************************)
(* SpecRefill: the executor on longer inputs whose worker function always  *)
(* returns, for what the refills pull from the input.                      *)
(***************************************************************************)

MaxPulled == 5

\* The items fun returns for, None among them.
ReturningItems == {item \in ExecItems : ~item.raises}

InitRefill ==
  /\ ExecInit("fun", SeqsUpTo(ReturningItems, MaxPulled))
  /\ BatchIdle
  /\ CredIdle
  /\ FileIdle
  /\ ProdIdle
  /\ QueryIdle
  /\ UrlIdle
  /\ FilterIdle
  /\ DescIdle
  /\ MonIdle
  /\ RedirIdle

SpecRefill == InitRefill /\ [][NextExec]_vars

\* C28: at every moment the items pulled from the input are at most the
\* low-water mark more than the results handed to the consumer; a step
\* pulls at most one item, and an item is submitted only after every item
\* before it in the input.
C28_BoundedLookahead ==
  [][/\ pulled' - Len(results') <= low_water_mark(workers')
     /\ pulled' \in {pulled, pulled + 1}
     /\ \A i \in Submitted' :
          \A j \in 1..(i - 1) :
            ~ItemIsNone(input'[j]) => j \in Submitted']_vars

\* The ceiling of 1.5 x w.
CeilingOfOneAndAHalf(w) == (3 * w + 1) \div 2

\* C27: for every worker count the target number of pending tasks is the
\* ceiling of 1.5 x W, which is greater than W, and when a refill has ended
\* the pending tasks are as many as the target unless the input is
\* exhausted.
C27_LowWaterMark ==
  /\ low_water_mark(workers) = CeilingOfOneAndAHalf(workers)
  /\ low_water_mark(workers) > workers
  /\ (gpc = "fill" /\ fillLeft = 0) =>
       \/ Cardinality(futures) = low_water_mark(workers)
       \/ pulled = Len(input)

(***************************************************************************)
(* download_features(features, path, options): the executor run with       *)
(* _download_feature as its worker function, between monitor.start() and   *)
(* monitor.stop().                                                         *)
(***************************************************************************)

\* The features of the model.
Features ==
  { [none |-> FALSE, title |-> "S2A", url |-> "url", coll |-> "SENTINEL-2"],
    [none |-> FALSE, title |-> "L8X", url |-> "url", coll |-> "Landsat8"],
    [none |-> FALSE, title |-> "S2B", url |-> None, coll |-> "SENTINEL-2"] }

BatchOptions ==
  { [has_filter_pattern |-> FALSE, filter_pattern |-> None],
    [has_filter_pattern |-> TRUE, filter_pattern |-> None],
    [has_filter_pattern |-> TRUE, filter_pattern |-> "*.jp2"] }

InitBatch ==
  /\ ExecInit("_download_feature", SeqsUpTo(Features, MaxFeatures))
  /\ options \in BatchOptions
  /\ monitor = "idle"
  /\ CredIdle
  /\ FileIdle
  /\ ProdIdle
  /\ QueryIdle
  /\ UrlIdle
  /\ FilterIdle
  /\ DescIdle
  /\ MonIdle
  /\ RedirIdle

\* The consumer asks for the first result: download_features fills in the
\* options, starts the monitor and enters _concurrent_process.
BatchStart ==
  /\ gpc = "created"
  /\ monitor' = "started"
  /\ gpc' = "fill"
  /\ fillLeft' = FillRange(workers, futures)
  /\ UNCHANGED <<worker, workers, input, pulled, futures, task, completed, toYield,
                 results, raisedBy, options>>
  /\ UNCHANGED notBatch

\* `yield from` has ended normally: monitor.stop() runs and the generator
\* returns.
BatchStop ==
  /\ gpc = "end"
  /\ monitor = "started"
  /\ monitor' = "stopped"
  /\ UNCHANGED <<execVars, options>>
  /\ UNCHANGED notBatch

NextBatch ==
  \/ BatchStart
  \/ SubmitItem
  \/ FillDone
  \/ \E i \in Positions : StartTask(i)
  \/ \E i \in Positions : CompleteTask(i)
  \/ Wait
  \/ \E i \in Positions : Yield(i)
  \/ Resume
  \/ Close
  \/ Shutdown
  \/ BatchStop

SpecBatch == InitBatch /\ [][NextBatch]_vars

(***************************************************************************)
(* Claims about download_features.                                         *)
(***************************************************************************)

\* The failures of one feature's download.
PerFeatureFailures ==
  {"unsupported_collection", "manifest_download", "manifest_parse",
   "inner_file", "retries_exhausted"}

\* No task ended with an exception that is not a failure of its feature.
OnlyPerFeatureFailures ==
  \A i \in DoneTasks :
    task[i].out.kind = "raise" => task[i].out.cause \in PerFeatureFailures

\* C2: in download_features a failure of one feature (collection not
\* supported for filtering, manifest download or parse failure, inner-file
\* failure, retries exhausted) becomes a None result of that feature: no
\* such failure reaches the consumer as an exception, and once the batch
\* has ended every feature has yielded its result.
C2_FailuresBecomeNull ==
  /\ \A i \in DoneTasks :
       task[i].out.cause \in PerFeatureFailures =>
         task[i].out.kind = "ret" /\ task[i].out.val = None
  /\ raisedBy # 0 => task[raisedBy].out.cause \notin PerFeatureFailures
  /\ (gpc \in {"end", "raised"} /\ OnlyPerFeatureFailures) =>
       \A i \in Positions : TimesYielded(i) = 1

\* The options carry no filter pattern: the key is absent or its value is
\* None.
NoFilterPattern(o) == ~o.has_filter_pattern \/ o.filter_pattern = None

\* C25: download_features runs every feature in full mode (download_feature,
\* which returns <title>.zip) when the options carry no filter pattern, key
\* absent or None, and in partial mode (download_nodes, which returns
\* <title>) otherwise.
C25_ModeSelection ==
  \A i \in DoneTasks :
    worker = "_download_feature" =>
      IF NoFilterPattern(options)
        THEN task[i].out \in download_feature_outcomes(input[i])
        ELSE task[i].out \in download_nodes_outcomes(input[i])

\* C40: the monitor is started before the first feature is dispatched and
\* is stopped when the result sequence has ended, by exhaustion, by an
\* exception that reached the consumer or by the consumer closing it.
C40_MonitorStartStop ==
  /\ (pulled > 0 \/ futures # {}) => monitor # "idle"
  /\ gpc \notin {"created", "end", "raised", "closed"} => monitor = "started"
  /\ gpc \in {"raised", "closed"} => monitor = "stopped"

(***************************************************************************)
(* The credential manager, class Credentials.                              *)
(***************************************************************************)

\* datetime.now() - timedelta(hours=8) at construction, when now = 0.
InitialExpiry == 0 - 8

\* What the token endpoint may answer, and the lifetimes it may grant.
StatusCodes == {200, 401, 500}
AccessTTLs == {1}
RefreshTTLs == {1, 3}

\* A lock that excludes nobody (the fault LockFree is tested against).
NoMutex(l) == TRUE
\* `with self.__lock`: the lock can be taken when it is free.
LockFree(l) == l = Free

\* The two grant types taken for one another (the fault SelectGrant is
\* tested against).
GrantsSwapped(accessExp, refreshExp, t) ==
  IF accessExp < t
    THEN IF refreshExp < t THEN "refresh_token" ELSE "password"
    ELSE None
\* A refresh-token grant whenever the access token has expired (another
\* fault SelectGrant is tested against).
RefreshFirst(accessExp, refreshExp, t) ==
  IF accessExp < t THEN "refresh_token" ELSE None
\* The test of lines 179-192: None when the access token has not expired,
\* else the grant type of the exchange.
SelectGrant(accessExp, refreshExp, t) ==
  IF accessExp < t
    THEN IF refreshExp < t THEN "password" ELSE "refresh_token"
    ELSE None

\* `if not self.__access_token`
TokenMissing(tok) == tok = NoToken

\* A decode that does not verify exp (the fault DecodeAccepts is tested
\* against).
ExpiryUnchecked(tok, t) == TRUE
\* jwt.decode(...) of lines 203-210 accepts the token: it raises
\* ExpiredSignatureError for a token whose exp claim is not in the future.
DecodeAccepts(tok, t) == tok.exp > t

\* The credentials a caller constructs with, and those of the .netrc entry
\* of the token endpoint.
Usernames == {NotGiven, Given(<<"u">>)}

Passwords == {NotGiven, Given(<<"p">>), Given(<<"p", "w">>)}

NetrcStates == {"nofile", "noentry", "entry"}

NetrcLogin == Given(<<"l">>)

NetrcPassword == Given(<<"s", "e", "c">>)

\* The password written out (the fault Masked is tested against).
Unmasked(pw) == IF pw.given THEN pw.str ELSE <<>>
\* `len(self.__password or '') * '*'`, line 164.
Masked(pw) == [k \in 1..(IF pw.given THEN Len(pw.str) ELSE 0) |-> "*"]

\* The message of lines 162-164.
UnableToExchange(user, pw) ==
  [text |-> "Unable to exchange token with username: and password: ",
   username |-> user, password |-> Masked(pw)]

\* `response.text` of an answer, and the message of line 168.
ResponseText(status_code) == <<"text of", status_code>>

ExchangeFailed(text) ==
  [text |-> "Token exchange failed: ", response |-> text]

InitCred ==
  /\ now = 0
  /\ access_token = NoToken
  /\ refresh_token = 0
  /\ access_token_expires = InitialExpiry
  /\ refresh_token_expires = InitialExpiry
  /\ lock = Free
  /\ constructed = "running"
  /\ tpc = [t \in Threads |-> IF t = 0 THEN "waiting" ELSE "idle"]
  /\ call = [t \in Threads |-> NewCall]
  /\ session = NoSession
  /\ posts = 0
  /\ conc = {}
  /\ lastGood = NoToken
  /\ lastExc = None
  /\ lastMsg = NoMessage
  /\ username = Given(<<"u">>)
  /\ password = Given(<<"p", "w">>)
  /\ netrc = "nofile"
  /\ ExecIdle
  /\ BatchIdle
  /\ FileIdle
  /\ ProdIdle
  /\ QueryIdle
  /\ UrlIdle
  /\ FilterIdle
  /\ DescIdle
  /\ MonIdle
  /\ RedirIdle

\* The threads that are inside get_session (or __init__) right now.
InCall == {t \in Threads : tpc[t] \in {"waiting", "exchange", "validate",
                                        "decode", "ensured"}}

\* Time passes.
Tick ==
  /\ now < MaxTime
  /\ now' = now + 1
  /\ UNCHANGED <<access_token, refresh_token, access_token_expires,
                 refresh_token_expires, lock, constructed, tpc, call,
                 session, posts, conc, lastGood, lastExc, lastMsg>>
  /\ UNCHANGED <<username, password, netrc>>
  /\ UNCHANGED notCred

\* A worker thread calls get_session(): make_session calls __ensure_tokens,
\* which waits for the lock.
GetSession(t) ==
  /\ constructed = "yes"
  /\ tpc[t] \in {"idle", "done", "raised"}
  /\ tpc' = [tpc EXCEPT ![t] = "waiting"]
  /\ LET expired == access_token_expires < now
     IN  /\ call' = [call EXCEPT ![t] = [NewCall EXCEPT !.expiredAtCall = expired]]
         /\ conc' = {p \in conc : t \notin p} \cup
                    {{t, u} : u \in {v \in InCall \ {t} :
                                       expired /\ call[v].expiredAtCall}}
  /\ UNCHANGED <<now, access_token, refresh_token, access_token_expires,
                 refresh_token_expires, lock, constructed, session, posts,
                 lastGood, lastExc, lastMsg>>
  /\ UNCHANGED <<username, password, netrc>>
  /\ UNCHANGED notCred

\* __ensure_tokens takes the lock and tests the expiries (lines 177-192).
Acquire(t) ==
  /\ tpc[t] = "waiting"
  /\ LockFree(lock)
  /\ lock' = t
  /\ LET g == SelectGrant(access_token_expires, refresh_token_expires, now)
     IN  /\ call' = [call EXCEPT ![t].grant_type = g, ![t].seenNow = now]
         /\ tpc' = [tpc EXCEPT ![t] = IF g = None THEN "validate"
                                                  ELSE "exchange"]
  /\ UNCHANGED <<now, access_token, refresh_token, access_token_expires,
                 refresh_token_expires, constructed, session, posts, conc,
                 lastGood, lastExc, lastMsg>>
  /\ UNCHANGED <<username, password, netrc>>
  /\ UNCHANGED notCred

\* A lock that stays held when the block is left (the fault WithExit is
\* tested against).
HeldAfterExit(l, t) == l
\* `with self.__lock:` is left by thread t, by return or by exception: the
\* lock is released if t holds it.
WithExit(l, t) == IF l = t THEN Free ELSE l

\* Exception e leaves `with self.__lock`, which releases the lock, and then
\* get_session (or __init__, whose object then never exists). An exception
\* of the state "exchange" is raised on the answer to the POST.
RaiseIn(t, e, msg) ==
  /\ lock' = WithExit(lock, t)
  /\ tpc' = [tpc EXCEPT ![t] = "raised"]
  /\ call' = [call EXCEPT ![t] =
       [Ended(@) EXCEPT !.posted = @ \/ tpc[t] = "exchange"]]
  /\ constructed' = IF t = 0 THEN "failed" ELSE constructed
  /\ lastExc' = e
  /\ lastMsg' = msg

\* __token_exchange(data): one POST to the token endpoint. 401 raises
\* InvalidCredentialsException, another status but 200 raises
\* TokenExchangeException; on 200 the tokens of the response are stored.
TokenExchange(t) ==
  /\ tpc[t] = "exchange"
  /\ posts < MaxPosts
  /\ posts' = posts + 1
  /\ \E status_code \in StatusCodes :
       IF status_code = 401
         THEN /\ RaiseIn(t, "InvalidCredentialsException",
                         UnableToExchange(username, password))
              /\ UNCHANGED <<access_token, refresh_token>>
       ELSE IF status_code # 200
         THEN /\ RaiseIn(t, "TokenExchangeException",
                         ExchangeFailed(ResponseText(status_code)))
              /\ UNCHANGED <<access_token, refresh_token>>
         ELSE /\ \E tok \in {NoToken} \cup
                            {Token(posts + 1, now, now + d) : d \in AccessTTLs},
                    delta \in RefreshTTLs :
                   /\ access_token' = tok
                   /\ refresh_token' = posts + 1
                   /\ call' = [call EXCEPT
                        ![t].grants = Append(@, call[t].grant_type),
                        ![t].posted = TRUE,
                        ![t].refresh_expire_delta = delta]
              /\ tpc' = [tpc EXCEPT ![t] = "validate"]
              /\ UNCHANGED <<lock, constructed, lastExc, lastMsg>>
  /\ UNCHANGED <<now, access_token_expires, refresh_token_expires, session,
                 conc, lastGood>>
  /\ UNCHANGED <<username, password, netrc>>
  /\ UNCHANGED notCred

\* Lines 194-201: no access token raises InvalidCredentialsException; the
\* signing key is fetched from the JWKS client, which may fail to connect.
GetSigningKey(t) ==
  /\ tpc[t] = "validate"
  /\ IF TokenMissing(access_token)
       THEN RaiseIn(t, "InvalidCredentialsException",
                    Message("Internal error: access token not available"))
       ELSE \E connected \in BOOLEAN :
              IF connected
                THEN /\ tpc' = [tpc EXCEPT ![t] = "decode"]
                     /\ UNCHANGED <<lock, constructed, call, lastExc,
                                    lastMsg>>
                ELSE RaiseIn(t, "TokenClientConnectionError", Message(""))
  /\ UNCHANGED <<now, access_token, refresh_token, access_token_expires,
                 refresh_token_expires, session, posts, conc, lastGood>>
  /\ UNCHANGED <<username, password, netrc>>
  /\ UNCHANGED notCred

\* Lines 202-215: jwt.decode validates the token; after an exchange the two
\* expiries are set from its claims; the lock is released on the way out.
\* __init__ returns here; get_session goes on in make_session.
\* The expiries set in every run, exchange or not.
AnyRun(c) == TRUE
\* `if refresh_expire_delta is not None`
Exchanged(c) == c.refresh_expire_delta # NoDelta

Decode(t) ==
  /\ tpc[t] = "decode"
  /\ IF DecodeAccepts(access_token, now)
       THEN /\ IF Exchanged(call[t])
                 THEN /\ access_token_expires' = access_token.exp
                      /\ refresh_token_expires' =
                           access_token.iat + call[t].refresh_expire_delta
                      /\ lastGood' = access_token
                 ELSE UNCHANGED <<access_token_expires, refresh_token_expires,
                                  lastGood>>
            /\ lock' = WithExit(lock, t)
            /\ call' = [call EXCEPT ![t] =
                 IF t = 0 THEN Ended(@)
                          ELSE [Ended(@) EXCEPT !.validated = access_token]]
            /\ tpc' = [tpc EXCEPT ![t] = IF t = 0 THEN "done" ELSE "ensured"]
            /\ constructed' = IF t = 0 THEN "yes" ELSE constructed
            /\ UNCHANGED <<lastExc, lastMsg>>
       ELSE /\ RaiseIn(t, "TokenExpiredSignatureError", Message(""))
            /\ UNCHANGED <<access_token_expires, refresh_token_expires,
                           lastGood>>
  /\ UNCHANGED <<now, access_token, refresh_token, session, posts, conc>>
  /\ UNCHANGED <<username, password, netrc>>
  /\ UNCHANGED notCred

\* make_session, lines 133-141: the session is built and the access token
\* is read into its Authorization header; get_session returns it.
MakeSession(t) ==
  /\ tpc[t] = "ensured"
  /\ session' = Session(t, access_token, call[t].validated)
  /\ call' = [call EXCEPT ![t] = Ended(@)]
  /\ tpc' = [tpc EXCEPT ![t] = "done"]
  /\ UNCHANGED <<now, access_token, refresh_token, access_token_expires,
                 refresh_token_expires, lock, constructed, posts, conc,
                 lastGood, lastExc, lastMsg>>
  /\ UNCHANGED <<username, password, netrc>>
  /\ UNCHANGED notCred

NextCred ==
  \/ Tick
  \/ \E t \in CallerThreads : GetSession(t)
  \/ \E t \in Threads : Acquire(t)
  \/ \E t \in Threads : TokenExchange(t)
  \/ \E t \in Threads : GetSigningKey(t)
  \/ \E t \in Threads : Decode(t)
  \/ \E t \in CallerThreads : MakeSession(t)

SpecCred == InitCred /\ [][NextCred]_vars

(***************************************************************************)
(* The life of one Credentials object in one thread: Credentials(username, *)
(* password) and then calls of get_session.                                *)
(***************************************************************************)
\* The thread that uses the object.
User == 1

InitConstruct ==
  /\ now = 0
  /\ access_token = NoToken
  /\ refresh_token = 0
  /\ access_token_expires = InitialExpiry
  /\ refresh_token_expires = InitialExpiry
  /\ lock = Free
  /\ constructed = "running"
  /\ tpc = [t \in Threads |-> IF t = 0 THEN "init" ELSE "idle"]
  /\ call = [t \in Threads |-> NewCall]
  /\ session = NoSession
  /\ posts = 0
  /\ conc = {}
  /\ lastGood = NoToken
  /\ lastExc = None
  /\ lastMsg = NoMessage
  /\ username \in Usernames
  /\ password \in Passwords
  /\ netrc \in NetrcStates
  /\ ExecIdle
  /\ BatchIdle
  /\ FileIdle
  /\ ProdIdle
  /\ QueryIdle
  /\ UrlIdle
  /\ FilterIdle
  /\ DescIdle
  /\ MonIdle
  /\ RedirIdle

\* __init__, lines 108-109, and __read_credentials, lines 217-222:
\* netrc.netrc() raises FileNotFoundError when there is no ~/.netrc;
\* authenticators() gives None when the file has no entry of the machine.
ReadCredentials ==
  /\ tpc[0] = "init"
  /\ IF username = NotGiven \/ password = NotGiven
       THEN CASE netrc = "nofile" ->
                   /\ RaiseIn(0, "FileNotFoundError", Message(""))
                   /\ UNCHANGED <<username, password>>
              [] netrc = "noentry" ->
                   /\ RaiseIn(0, "NoCredentialsException",
                              Message("No credentials found"))
                   /\ UNCHANGED <<username, password>>
              [] netrc = "entry" ->
                   /\ username' = NetrcLogin
                   /\ password' = NetrcPassword
                   /\ tpc' = [tpc EXCEPT ![0] = "waiting"]
                   /\ UNCHANGED <<lock, constructed, call, lastExc, lastMsg>>
       ELSE /\ tpc' = [tpc EXCEPT ![0] = "waiting"]
            /\ UNCHANGED <<lock, constructed, call, lastExc, lastMsg,
                           username, password>>
  /\ UNCHANGED <<now, access_token, refresh_token, access_token_expires,
                 refresh_token_expires, session, posts, conc, lastGood,
                 netrc>>
  /\ UNCHANGED notCred

NextConstruct ==
  \/ ReadCredentials
  \/ Tick
  \/ GetSession(User)
  \/ \E t \in {0, User} : Acquire(t)
  \/ \E t \in {0, User} : TokenExchange(t)
  \/ \E t \in {0, User} : GetSigningKey(t)
  \/ \E t \in {0, User} : Decode(t)
  \/ MakeSession(User)

SpecConstruct == InitConstruct /\ [][NextConstruct]_vars


(***************************************************************************)
(* download_file (download.py): one file, written at `path` inside the     *)
(* scratch directory, in at most MaxAttempts attempts.                     *)
(***************************************************************************)

\* A loop that is off by one (the fault MaxAttempts is tested against).
OneMoreAttempt == 10 + 1
\* `while attempts < 10`
MaxAttempts == 10

\* What get_session() does to the caller: it returns a session, or raises
\* one of the exceptions of credentials.py; download_file catches two.
SessionOutcomes ==
  {"session", "TokenClientConnectionError", "TokenExpiredSignatureError",
   "InvalidCredentialsException", "TokenExchangeException"}
CaughtTokenErrors == {"TokenClientConnectionError", "TokenExpiredSignatureError"}

\* What the server answers to the GET, and how a body may break off.
GetStatusCodes == {200, 404}
StreamErrors == {"ChunkedEncodingError", "ConnectionResetError", "ProtocolError"}

\* open(path, "wb"): the file exists and is empty.
OpenWb(fs, name) == Put(fs, name, <<>>)
\* outfile.write(chunk)
WriteChunk(fs, name, c) == Put(fs, name, Append(fs[name], c))

\* download_file(url, path, options) is called: the locals of a new call.
\* (Every file of a product has a body of `size` chunks.)
DownloadFileCall(name) ==
  /\ fpc' = "loop"
  /\ attempts' = 0 /\ gets' = 0 /\ fails' = 0 /\ sent' = 0
  /\ status' = NewStatus
  /\ fname' = name
  /\ fresult' = None /\ fexc' = None

InitFile ==
  /\ fpc = "loop" /\ attempts = 0 /\ gets = 0 /\ fails = 0 /\ sent = 0 /\ status = NewStatus
  /\ fname = "file"
  /\ size \in 1..MaxChunks
  /\ fresult = None /\ fexc = None
  /\ tempdirs = {1} /\ scratch = NoFiles /\ dest = Directory(FALSE, NoFiles)
  /\ ExecIdle /\ BatchIdle /\ CredIdle /\ ProdIdle
  /\ QueryIdle /\ UrlIdle
  /\ FilterIdle
  /\ DescIdle
  /\ MonIdle
  /\ RedirIdle

\* `while attempts < 10: attempts += 1`, or the loop ends: log the error
\* and return None. (What an attempt has written is stale for the next.)
FileLoop ==
  /\ fpc = "loop"
  /\ IF attempts < MaxAttempts
       THEN /\ attempts' = attempts + 1
            /\ fpc' = "session"
            /\ scratch' = IF fname \in DOMAIN scratch
                             THEN Put(scratch, fname, Stale(scratch[fname]))
                             ELSE scratch
            /\ UNCHANGED fresult
       ELSE /\ fresult' = None
            /\ fpc' = "returned"
            /\ UNCHANGED <<attempts, scratch>>
  /\ UNCHANGED <<gets, fails, fname, size, sent, status, fexc, tempdirs, dest>>
  /\ UNCHANGED notFile

\* Lines 99-106: get_session(); the two token errors are logged and the
\* attempt is over; another exception leaves download_file.
FileSession ==
  /\ fpc = "session"
  /\ \E o \in SessionOutcomes :
       IF o = "session"
         THEN fpc' = "get" /\ UNCHANGED <<fails, fexc>>
       ELSE IF o \in CaughtTokenErrors
         THEN fpc' = "loop" /\ fails' = fails + 1 /\ UNCHANGED fexc
         ELSE fpc' = "raised" /\ fexc' = o /\ UNCHANGED fails
  /\ UNCHANGED <<attempts, gets, fname, size, sent, status, fresult, tempdirs, scratch,
                 dest>>
  /\ UNCHANGED notFile

\* Lines 107-115: the redirects are followed and the GET is sent. Another
\* status than 200 ends the attempt; a 200 without Content-Length raises
\* KeyError; else the file is opened for writing, which empties it.
FileGet ==
  /\ fpc = "get"
  /\ gets' = gets + 1
  /\ \E status_code \in GetStatusCodes, hasLength \in BOOLEAN :
       IF status_code # 200
         THEN /\ fpc' = "loop" /\ fails' = fails + 1
              /\ UNCHANGED <<fexc, sent, status, scratch>>
       ELSE IF ~hasLength
         THEN /\ fpc' = "raised" /\ fexc' = "KeyError"
              /\ UNCHANGED <<fails, sent, status, scratch>>
         ELSE /\ fpc' = "stream" /\ sent' = 0
              /\ status' = [status EXCEPT !.size = size]
              /\ scratch' = OpenWb(scratch, fname)
              /\ UNCHANGED <<fails, fexc>>
  /\ UNCHANGED <<attempts, fname, size, fresult, tempdirs, dest>>
  /\ UNCHANGED notFile

\* Lines 117-126: the next chunk is written, or the body breaks off with
\* one of the three errors, which ends the attempt.
FileChunk ==
  /\ fpc = "stream"
  /\ sent < size
  /\ \/ /\ sent' = sent + 1
        /\ status' = [status EXCEPT !.downloaded = @ + 1]
        /\ scratch' = WriteChunk(scratch, fname, Chunk("fresh", sent + 1))
        /\ UNCHANGED <<fpc, fails>>
     \/ /\ \E e \in StreamErrors : fpc' = "loop"
        /\ fails' = fails + 1
        /\ UNCHANGED <<sent, status, scratch>>
  /\ UNCHANGED <<attempts, gets, fname, size, fresult, fexc, tempdirs, dest>>
  /\ UNCHANGED notFile

\* Line 127: the body is complete: return path.
FileDone ==
  /\ fpc = "stream"
  /\ sent = size
  /\ fresult' = fname
  /\ fpc' = "returned"
  /\ UNCHANGED <<attempts, gets, fails, fname, size, sent, status, fexc, tempdirs,
                 scratch, dest>>
  /\ UNCHANGED notFile

NextFile ==
  \/ FileLoop
  \/ FileSession
  \/ FileGet
  \/ FileChunk
  \/ FileDone

SpecFile == InitFile /\ [][NextFile]_vars

\* C7: download_file makes at most 10 attempts and at most 10 calls of
\* session.get; every attempt that ends in a caught failure uses up
\* exactly one attempt; after 10 failed attempts it returns None without
\* raising, and it returns None only then.
C7_AtMostTenAttempts ==
  /\ attempts <= 10
  /\ gets <= attempts
  /\ attempts = fails + (IF fpc \in {"session", "get", "stream"} \/
                            (fpc = "returned" /\ fresult # None) \/
                            fpc = "raised"
                           THEN 1 ELSE 0)
  /\ fails = 10 => fpc \in {"loop", "returned"}
  /\ fpc = "returned" => (fresult = None <=> fails = 10)

\* Ten attempts have failed, some before and some after the GET, and
\* download_file has returned None.
C7_Witness ==
  /\ fpc = "returned" /\ fresult = None
  /\ attempts = 10 /\ gets > 0 /\ gets < 10

\* C23: a 200 answer without Content-Length is a failed attempt, retried
\* like the others: the missing header never makes download_file raise.
C23_MissingLength == fpc = "raised" => fexc # "KeyError"

\* C30: when download_file has succeeded, the downloaded count of its
\* status is the number of bytes of the file it wrote, and is not above
\* the size taken from Content-Length.
C30_ProgressIsFileSize ==
  (fpc = "returned" /\ fresult # None) =>
    /\ status.downloaded = Len(scratch[fname])
    /\ status.downloaded <= status.size

(***************************************************************************)
(* The download of one product: download_feature (the whole product as    *)
(* <title>.zip) and download_nodes (the files of the product that match    *)
(* a pattern, as directory <title>).                                       *)
(***************************************************************************)

\* The name of the product at the final path.
FinalName == IF mode = "full" THEN ZipName(feat.title) ELSE feat.title

\* What may be at the final path before the download.
OldBytes == <<Chunk("old", 1)>>
OldEntry(m) == IF m = "full" THEN File(OldBytes)
                             ELSE Dir(Put(NoFiles, "old", OldBytes))
Destinations(m, f) ==
  { Directory(FALSE, NoFiles),
    Directory(TRUE, NoFiles),
    Directory(TRUE, Put(NoFiles, IF m = "full" THEN ZipName(f.title) ELSE f.title,
                        OldEntry(m))) }

\* An exit that leaves the directory behind (the fault Cleanup is tested
\* against).
KeepDir(dirs, d) == dirs
\* The exit of `with tempfile.TemporaryDirectory(...)`: directory d and
\* what is in it are removed.
Cleanup(dirs, d) == dirs \ {d}

\* os.path.exists(result_path)
Exists(d, name) == d.exists /\ name \in DOMAIN d.entries

\* A feature without title, for download_feature.
Untitled ==
  [none |-> FALSE, title |-> None, url |-> "url", coll |-> "SENTINEL-2"]

InitProduct ==
  /\ mode \in {"full", "partial"}
  /\ feat \in Features \cup (IF mode = "full" THEN {Untitled} ELSE {})
  /\ overwrite_existing \in (IF mode = "full" THEN BOOLEAN ELSE {FALSE})
  /\ dest \in Destinations(mode, feat)
  /\ dest0 = dest
  /\ debugs = 0
  /\ ppc = "start"
  /\ todo = <<>> /\ started = <<>> /\ failedAt = 0 /\ copied = 0
  /\ presult = None /\ pexc = None
  /\ fpc = "idle" /\ attempts = 0 /\ gets = 0 /\ fails = 0 /\ fname = None
  /\ size \in 1..MaxChunks
  /\ sent = 0 /\ status = NewStatus /\ fresult = None /\ fexc = None
  /\ tempdirs = {} /\ scratch = NoFiles
  /\ ExecIdle /\ BatchIdle /\ CredIdle
  /\ QueryIdle /\ UrlIdle
  /\ FilterIdle
  /\ DescIdle
  /\ MonIdle
  /\ RedirIdle

\* A test of the URL alone (the fault Bad is tested against).
BadUrl(url, title) == url = None
\* `if not url or not title`, line 216.
Bad(url, title) == url = None \/ title = None

\* download_feature, lines 210-229: None for a feature without URL or
\* title; the file name, and nothing else, when the file exists and is not
\* to be overwritten; else the retry loop starts.
FeatStart ==
  /\ mode = "full" /\ ppc = "start"
  /\ IF Bad(feat.url, feat.title)
       THEN ppc' = "returned" /\ presult' = None /\ debugs' = debugs + 1
     ELSE IF ~overwrite_existing /\ Exists(dest, ZipName(feat.title))
       THEN /\ ppc' = "returned" /\ presult' = ZipName(feat.title)
            /\ debugs' = debugs + 1
       ELSE ppc' = "loop" /\ UNCHANGED <<presult, debugs>>
  /\ UNCHANGED <<mode, overwrite_existing, feat, todo, started, failedAt,
                 copied, pexc, dest0>>
  /\ UNCHANGED fileVars
  /\ UNCHANGED notProd

\* `while attempts < 10: attempts += 1`, or log the error and return None.
FeatLoop ==
  /\ ppc = "loop"
  /\ IF attempts < MaxAttempts
       THEN attempts' = attempts + 1 /\ ppc' = "session" /\ UNCHANGED presult
       ELSE presult' = None /\ ppc' = "returned" /\ UNCHANGED attempts
  /\ UNCHANGED <<mode, overwrite_existing, feat, todo, started, failedAt,
                 copied, pexc, dest0, debugs>>
  /\ UNCHANGED <<fpc, gets, fails, fname, size, sent, status, fresult, fexc, tempdirs,
                 scratch, dest>>
  /\ UNCHANGED notProd

\* Lines 233-240: get_session(), as in download_file.
FeatSession ==
  /\ ppc = "session"
  /\ \E o \in SessionOutcomes :
       IF o = "session"
         THEN ppc' = "get" /\ UNCHANGED <<fails, pexc>>
       ELSE IF o \in CaughtTokenErrors
         THEN ppc' = "loop" /\ fails' = fails + 1 /\ UNCHANGED pexc
         ELSE ppc' = "raised" /\ pexc' = o /\ UNCHANGED fails
  /\ UNCHANGED <<mode, overwrite_existing, feat, todo, started, failedAt,
                 copied, presult, dest0, debugs>>
  /\ UNCHANGED <<fpc, attempts, gets, fname, size, sent, status, fresult, fexc,
                 tempdirs, scratch, dest>>
  /\ UNCHANGED notProd

\* Lines 241-256: the GET is sent and the scratch directory of this attempt
\* is created. Another status than 200 ends the attempt, a 200 without
\* Content-Length raises KeyError, and both leave the `with`, which removes
\* the directory; else download.zip is opened in it.
FeatGet ==
  /\ ppc = "get"
  /\ gets' = gets + 1
  /\ \E status_code \in GetStatusCodes, hasLength \in BOOLEAN :
       IF status_code # 200
         THEN /\ ppc' = "loop" /\ fails' = fails + 1
              /\ tempdirs' = Cleanup(tempdirs \cup {attempts}, attempts)
              /\ UNCHANGED <<pexc, sent, status, scratch>>
       ELSE IF ~hasLength
         THEN /\ ppc' = "raised" /\ pexc' = "KeyError"
              /\ tempdirs' = Cleanup(tempdirs \cup {attempts}, attempts)
              /\ UNCHANGED <<fails, sent, status, scratch>>
         ELSE /\ ppc' = "stream" /\ sent' = 0
              /\ status' = [status EXCEPT !.size = size]
              /\ tempdirs' = tempdirs \cup {attempts}
              /\ scratch' = OpenWb(NoFiles, "download.zip")
              /\ UNCHANGED <<fails, pexc>>
  /\ UNCHANGED <<mode, overwrite_existing, feat, todo, started, failedAt,
                 copied, presult, dest0, debugs>>
  /\ UNCHANGED <<fpc, attempts, fname, size, fresult, fexc, dest>>
  /\ UNCHANGED notProd

\* Lines 261-270: the next chunk is written to download.zip, or the body
\* breaks off, which ends the attempt and removes its scratch directory.
FeatChunk ==
  /\ ppc = "stream"
  /\ sent < size
  /\ \/ /\ sent' = sent + 1
        /\ status' = [status EXCEPT !.downloaded = @ + 1]
        /\ scratch' = WriteChunk(scratch, "download.zip",
                                 Chunk("fresh", sent + 1))
        /\ UNCHANGED <<ppc, fails, tempdirs>>
     \/ /\ \E e \in StreamErrors : ppc' = "loop"
        /\ fails' = fails + 1
        /\ tempdirs' = Cleanup(tempdirs, attempts)
        /\ scratch' = NoFiles
        /\ UNCHANGED <<sent, status>>
  /\ UNCHANGED <<mode, overwrite_existing, feat, todo, started, failedAt,
                 copied, presult, pexc, dest0, debugs>>
  /\ UNCHANGED <<fpc, attempts, gets, fname, size, fresult, fexc, dest>>
  /\ UNCHANGED notProd

\* Line 272, shutil.copy(tmp_file, result_path) begins: the file at the
\* final path is opened for writing, which creates or empties it; without
\* destination directory the open raises FileNotFoundError.
FeatCopyOpen ==
  /\ ppc = "stream"
  /\ sent = size
  /\ IF dest.exists
       THEN /\ dest' = [dest EXCEPT !.entries =
                          Put(@, ZipName(feat.title), File(<<>>))]
            /\ copied' = 0
            /\ ppc' = "copy"
            /\ UNCHANGED <<pexc, tempdirs, scratch>>
       ELSE /\ ppc' = "raised" /\ pexc' = "FileNotFoundError"
            /\ tempdirs' = Cleanup(tempdirs, attempts)
            /\ scratch' = NoFiles
            /\ UNCHANGED <<dest, copied>>
  /\ UNCHANGED <<mode, overwrite_existing, feat, todo, started, failedAt,
                 presult, dest0, debugs>>
  /\ UNCHANGED <<fpc, attempts, gets, fails, fname, size, sent, status, fresult, fexc>>
  /\ UNCHANGED notProd

\* shutil.copy copies the bytes of download.zip to the final path.
FeatCopyChunk ==
  /\ ppc = "copy"
  /\ copied < Len(scratch["download.zip"])
  /\ copied' = copied + 1
  /\ dest' = [dest EXCEPT !.entries[ZipName(feat.title)] =
                File(Append(@.data, scratch["download.zip"][copied + 1]))]
  /\ UNCHANGED <<mode, ppc, overwrite_existing, feat, todo, started,
                 failedAt, presult, pexc, dest0, debugs>>
  /\ UNCHANGED <<fpc, attempts, gets, fails, fname, size, sent, status, fresult, fexc,
                 tempdirs, scratch>>
  /\ UNCHANGED notProd

\* Line 273: the copy is complete; `return filename` leaves the `with`,
\* which removes the scratch directory.
FeatCopyDone ==
  /\ ppc = "copy"
  /\ copied = Len(scratch["download.zip"])
  /\ presult' = ZipName(feat.title)
  /\ ppc' = "returned"
  /\ tempdirs' = Cleanup(tempdirs, attempts)
  /\ scratch' = NoFiles
  /\ UNCHANGED <<mode, overwrite_existing, feat, todo, started, failedAt,
                 copied, pexc, dest0, debugs>>
  /\ UNCHANGED <<fpc, attempts, gets, fails, fname, size, sent, status, fresult, fexc,
                 dest>>
  /\ UNCHANGED notProd

\* The files the manifest of the product lists, and what
\* filter_files(manifest_file, pattern) may return for a pattern: the
\* listed files that match it.
ManifestListing == <<"a.jp2", "b.xml">>
FilteredFiles == {<<>>, <<"a.jp2">>, <<"b.xml">>, <<"a.jp2", "b.xml">>}

\* A check that never sees the failure (the fault FileFailed is tested
\* against).
NeverFailed(r) == FALSE
\* `if manifest_file is None`, `if output_file is None`
FileFailed(r) == r = None

\* download_file has returned to download_nodes (or raised): its locals are
\* gone.
DownloadFileReturn ==
  /\ fpc \in {"returned", "raised"}
  /\ fpc' = "idle"
  /\ attempts' = 0 /\ gets' = 0 /\ fails' = 0 /\ sent' = 0
  /\ status' = NewStatus
  /\ fname' = None /\ fresult' = None /\ fexc' = None
  /\ UNCHANGED <<size, dest>>

\* The record of a failure: download_file has come back with None for the
\* file started last.
FailedHere == IF fresult = None THEN Len(started) ELSE failedAt

\* download_nodes leaves with exception e, through the exit of the `with`.
NodesRaise(e) ==
  /\ ppc' = "raised" /\ pexc' = e
  /\ tempdirs' = Cleanup(tempdirs, 1)
  /\ scratch' = NoFiles
  /\ UNCHANGED presult

\* download_nodes returns None, through the exit of the `with`.
NodesReturnNone ==
  /\ ppc' = "returned" /\ presult' = None
  /\ tempdirs' = Cleanup(tempdirs, 1)
  /\ scratch' = NoFiles
  /\ UNCHANGED pexc

\* download_nodes, lines 145-162: the scratch directory and the product
\* directory in it are created, the manifest's name is looked up (KeyError
\* for a collection without manifest) and its download starts.
NodesStart ==
  /\ mode = "partial" /\ ppc = "start"
  /\ IF feat.coll \notin DOMAIN MANIFEST_BASENAMES
       THEN /\ ppc' = "raised" /\ pexc' = "KeyError"
            /\ tempdirs' = Cleanup(tempdirs \cup {1}, 1)
            /\ UNCHANGED <<started, fpc, attempts, gets, fails, fname, sent, status,
                           fresult, fexc>>
       ELSE /\ ppc' = "manifest"
            /\ tempdirs' = tempdirs \cup {1}
            /\ DownloadFileCall(MANIFEST_BASENAMES[feat.coll])
            /\ started' = <<MANIFEST_BASENAMES[feat.coll]>>
            /\ UNCHANGED pexc
  /\ UNCHANGED <<mode, overwrite_existing, feat, todo, failedAt, copied,
                 presult, dest0, debugs, size, scratch, dest>>
  /\ UNCHANGED notProd

\* Lines 163-172: download_file is back with the manifest. An exception of
\* it passes through; None returns None; else filter_files reads the
\* manifest, and its exceptions return None.
NodesManifest ==
  /\ ppc = "manifest"
  /\ DownloadFileReturn
  /\ IF fpc = "raised"
       THEN NodesRaise(fexc) /\ UNCHANGED <<todo, failedAt>>
     ELSE IF FileFailed(fresult)
       THEN NodesReturnNone /\ failedAt' = FailedHere /\ UNCHANGED todo
       ELSE \E parsed \in BOOLEAN :
              IF parsed
                THEN /\ todo' \in FilteredFiles
                     /\ ppc' = "files"
                     /\ failedAt' = FailedHere
                     /\ UNCHANGED <<presult, pexc, tempdirs, scratch>>
                ELSE /\ NodesReturnNone
                     /\ failedAt' = Len(started)
                     /\ UNCHANGED todo
  /\ UNCHANGED <<mode, overwrite_existing, feat, started, copied, dest0, debugs>>
  /\ UNCHANGED notProd

\* Lines 174-190: the download of the next filtered file starts.
NodesNextFile ==
  /\ ppc = "files"
  /\ todo # <<>>
  /\ DownloadFileCall(Head(todo))
  /\ started' = Append(started, Head(todo))
  /\ todo' = Tail(todo)
  /\ ppc' = "file"
  /\ UNCHANGED <<mode, overwrite_existing, feat, failedAt, copied, presult,
                 pexc, dest0, debugs>>
  /\ UNCHANGED <<size, tempdirs, scratch, dest>>
  /\ UNCHANGED notProd

\* Lines 182-193: download_file is back with a filtered file.
NodesFile ==
  /\ ppc = "file"
  /\ DownloadFileReturn
  /\ IF fpc = "raised"
       THEN NodesRaise(fexc) /\ UNCHANGED failedAt
     ELSE IF FileFailed(fresult)
       THEN NodesReturnNone /\ failedAt' = FailedHere
       ELSE /\ ppc' = "files"
            /\ failedAt' = FailedHere
            /\ UNCHANGED <<presult, pexc, tempdirs, scratch>>
  /\ UNCHANGED <<mode, overwrite_existing, feat, todo, started, copied, dest0, debugs>>
  /\ UNCHANGED notProd

\* Lines 196-199: os.makedirs(path, exist_ok=True) and
\* shutil.move(temp_product_path, path). The move raises shutil.Error when
\* path/<title> exists; it renames the product directory when scratch and
\* destination are on one file system; else it copies the tree: it creates
\* path/<title> and then copies file by file.
NodesMove ==
  /\ ppc = "files"
  /\ todo = <<>>
  /\ IF feat.title \in DOMAIN dest.entries
       THEN /\ dest' = [dest EXCEPT !.exists = TRUE]
            /\ NodesRaise("shutil.Error")
       ELSE \E sameFileSystem \in BOOLEAN :
              IF sameFileSystem
                THEN /\ dest' = Directory(TRUE, Put(dest.entries, feat.title,
                                                    Dir(scratch)))
                     /\ ppc' = "returned" /\ presult' = feat.title
                     /\ tempdirs' = Cleanup(tempdirs, 1)
                     /\ scratch' = NoFiles
                     /\ UNCHANGED pexc
                ELSE /\ dest' = Directory(TRUE, Put(dest.entries, feat.title,
                                                    Dir(NoFiles)))
                     /\ ppc' = "copytree"
                     /\ UNCHANGED <<presult, pexc, tempdirs, scratch>>
  /\ UNCHANGED <<mode, overwrite_existing, feat, todo, started, failedAt,
                 copied, dest0, debugs>>
  /\ UNCHANGED <<fpc, attempts, gets, fails, fname, size, sent, status, fresult, fexc>>
  /\ UNCHANGED notProd

\* copytree copies one more file of the product to path/<title>.
NodesCopyFile ==
  /\ ppc = "copytree"
  /\ \E n \in DOMAIN scratch \ DOMAIN dest.entries[feat.title].files :
       dest' = [dest EXCEPT !.entries[feat.title] =
                  Dir(Put(@.files, n, scratch[n]))]
  /\ UNCHANGED <<mode, ppc, overwrite_existing, feat, todo, started, failedAt,
                 copied, presult, pexc, dest0, debugs>>
  /\ UNCHANGED <<fpc, attempts, gets, fails, fname, size, sent, status, fresult, fexc,
                 tempdirs, scratch>>
  /\ UNCHANGED notProd

\* The tree is copied: shutil.move removes the source, the `with` removes
\* the scratch directory, and download_nodes returns the product's name.
NodesCopyDone ==
  /\ ppc = "copytree"
  /\ DOMAIN scratch = DOMAIN dest.entries[feat.title].files
  /\ ppc' = "returned" /\ presult' = feat.title
  /\ tempdirs' = Cleanup(tempdirs, 1)
  /\ scratch' = NoFiles
  /\ UNCHANGED <<mode, overwrite_existing, feat, todo, started, failedAt,
                 copied, pexc, dest0, debugs>>
  /\ UNCHANGED <<fpc, attempts, gets, fails, fname, size, sent, status, fresult, fexc,
                 dest>>
  /\ UNCHANGED notProd

\* The process is killed in the middle of a download: nothing runs any
\* more, and the file system stays as it is.
Crash ==
  /\ ppc \notin {"idle", "start", "returned", "raised", "crashed"}
  /\ ppc' = "crashed"
  /\ fpc' = "crashed"
  /\ UNCHANGED <<mode, overwrite_existing, feat, todo, started, failedAt,
                 copied, presult, pexc, dest0, debugs>>
  /\ UNCHANGED <<attempts, gets, fails, fname, size, sent, status, fresult, fexc,
                 tempdirs, scratch, dest>>
  /\ UNCHANGED notProd

NextProduct ==
  \/ FeatStart
  \/ FeatLoop
  \/ FeatSession
  \/ FeatGet
  \/ FeatChunk
  \/ FeatCopyOpen
  \/ FeatCopyChunk
  \/ FeatCopyDone
  \/ NodesStart
  \/ NodesManifest
  \/ NodesNextFile
  \/ NodesFile
  \/ NodesMove
  \/ NodesCopyFile
  \/ NodesCopyDone
  \/ FileLoop
  \/ FileSession
  \/ FileGet
  \/ FileChunk
  \/ FileDone
  \/ Crash

SpecProduct == InitProduct /\ [][NextProduct]_vars

(***************************************************************************)
(* Claims about the download of one product.                               *)
(***************************************************************************)

\* The set of the elements of a sequence.
Range(q) == {q[i] : i \in 1..Len(q)}

\* The product at the final path is whole: the zip file holds the body of
\* one attempt; the product directory holds every file that was selected,
\* each with its whole body.
Complete(entry) ==
  IF mode = "full"
    THEN entry = File(Stream(size))
    ELSE /\ entry.kind = "dir"
         /\ DOMAIN entry.files = Range(started)
         /\ todo = <<>>
         /\ \A n \in DOMAIN entry.files : entry.files[n] = Stream(size)

\* C8: at no point of a download does the final path hold a partially
\* written product: what is there is what was there before, or the whole
\* product.
C8_NoPartialOutput ==
  Exists(dest, FinalName) =>
    \/ Exists(dest0, FinalName) /\
         dest.entries[FinalName] = dest0.entries[FinalName]
    \/ Complete(dest.entries[FinalName])

\* C9: after download_feature has downloaded the product, the destination
\* holds what it held before and <title>.zip with exactly the body of the
\* successful attempt, and no scratch directory nor scratch file remains.
C9_ExactlyTheZip ==
  (mode = "full" /\ ppc = "returned" /\ presult # None /\ attempts > 0) =>
    /\ presult = ZipName(feat.title)
    /\ dest.entries = Put(dest0.entries, ZipName(feat.title),
                          File(Stream(size)))
    /\ tempdirs = {}
    /\ scratch = NoFiles

\* download_feature has succeeded after an attempt that broke off in the
\* middle of the body, and has replaced the file that was there.
C9_Witness ==
  /\ mode = "full" /\ ppc = "returned" /\ presult = ZipName(feat.title)
  /\ fails > 0 /\ gets > fails
  /\ Exists(dest0, ZipName(feat.title))

\* C10: when download_file returns None for the manifest or for a filtered
\* file, or filter_files fails, download_nodes starts no further file,
\* returns None, leaves the destination as it was and removes the scratch
\* directory. (An exception that leaves download_nodes leaves destination
\* and scratch in that state too.)
C10_AllOrNothing ==
  /\ (mode = "partial" /\ failedAt # 0) =>
       /\ Len(started) = failedAt
       /\ ppc = "returned" /\ presult = None
       /\ dest = dest0
       /\ tempdirs = {} /\ scratch = NoFiles
  /\ (mode = "partial" /\ ppc = "raised") =>
       /\ dest = dest0
       /\ tempdirs = {} /\ scratch = NoFiles

\* The first of two filtered files has failed: the second was not
\* started, and the destination directory was not created.
C10_Witness ==
  /\ mode = "partial" /\ ppc = "returned" /\ presult = None
  /\ failedAt = 2 /\ todo # <<>>
  /\ ~dest.exists

C31_OnlyFilteredFiles ==
  (mode = "partial" /\ ppc = "returned" /\ presult # None) =>
    /\ Exists(dest, feat.title)
    /\ DOMAIN dest.entries[feat.title].files = Range(Tail(started))
    /\ MANIFEST_BASENAMES[feat.coll] \notin
         DOMAIN dest.entries[feat.title].files

\* A feature with URL and title, of a collection that has a manifest.
WellFormed(f) ==
  f.url # None /\ f.title # None /\ f.coll \in DOMAIN MANIFEST_BASENAMES

\* C11: when the output of a (well-formed) feature exists at the
\* destination and overwrite_existing is false, its download sends no GET,
\* changes nothing at the destination and returns the output's basename,
\* in full mode and in partial mode.
C11_SkipExisting ==
  (WellFormed(feat) /\ Exists(dest0, FinalName) /\ ~overwrite_existing) =>
    /\ gets = 0
    /\ dest = dest0
    /\ ppc # "raised"
    /\ ppc = "returned" => presult = FinalName

(***************************************************************************)
(* Claims about the credential manager                                     *)
(***************************************************************************)

\* The threads that hold the lock's section of __ensure_tokens.
InSection == {t \in Threads : tpc[t] \in {"exchange", "validate", "decode"}}

\* C3 as stated: of the get_session calls that were made concurrently on an
\* expired access token, no two both send a POST to the token endpoint.
C3_SingleExchange ==
  \A p \in conc : Cardinality({t \in p : call[t].posted}) <= 1

\* C3 as amended: the runs of __ensure_tokens exclude one another, and a
\* caller is about to send a POST only if the last token that was exchanged
\* and validated had expired when that caller read the clock under the lock.
C3_ExchangeOnlyWhenExpired ==
  /\ Cardinality(InSection) <= 1
  /\ \A t \in Threads :
       (tpc[t] = "exchange" /\ lastGood # NoToken) =>
         lastGood.exp < call[t].seenNow

\* Two calls made concurrently on an expired token have both returned a
\* session; one of them exchanged the token and the other did not.
C3_Witness ==
  \E p \in conc : \E t \in p, u \in p :
    /\ t # u
    /\ tpc[t] = "done" /\ tpc[u] = "done"
    /\ call[t].posted /\ ~call[u].posted

\* C4: the token of the Authorization header of a returned session is the
\* token that __ensure_tokens validated for that call.
C4_SessionCarriesValidated ==
  session.token = session.validated

\* The grants C5 expects of a run that read clock t under the lock.
ExpectedGrants(accessExp, refreshExp, t) ==
  IF accessExp >= t THEN <<>>
  ELSE IF refreshExp >= t THEN <<"refresh_token">>
  ELSE <<"password">>

\* C5: a run of __ensure_tokens sends no grant if the access token has not
\* expired, one refresh_token grant if only the access token has expired,
\* one password grant if both have; the run of __init__ sends a password
\* grant. (The expiries are those the run tested until it returns.)
C5_GrantSelection ==
  \A t \in Threads :
    LET expected == ExpectedGrants(access_token_expires,
                                   refresh_token_expires, call[t].seenNow)
    IN  /\ tpc[t] = "exchange" =>
             /\ call[t].grants = <<>>
             /\ <<call[t].grant_type>> = expected
        /\ tpc[t] \in {"validate", "decode"} =>
             /\ call[t].grants = expected
             /\ t = 0 => call[t].grants = <<"password">>

\* A caller's run has sent one refresh_token grant and goes on to validate.
C5_Witness ==
  \E t \in CallerThreads :
    tpc[t] = "decode" /\ call[t].grants = <<"refresh_token">>

\* C6: when __ensure_tokens returns normally the stored access token is not
\* empty, and its exp claim is in the future or the run exchanged the token.
C6_TokenOnReturn ==
  [][\A t \in Threads :
       (tpc[t] = "decode" /\ tpc'[t] \in {"ensured", "done"}) =>
         /\ ~TokenMissing(access_token')
         /\ access_token'.exp > now' \/ call[t].grants # <<>>]_vars

\* A caller's run that sent no grant has returned normally.
C6_Witness ==
  \E t \in CallerThreads :
    /\ tpc[t] = "ensured"
    /\ ~call[t].posted
    /\ call[t].validated = access_token


\* The stored tokens and their expiries.
stored == <<access_token, refresh_token, access_token_expires,
            refresh_token_expires>>

AllStars(str, n) == Len(str) = n /\ \A k \in DOMAIN str : str[k] = "*"

\* C21: a token exchange answered 401 raises InvalidCredentialsException
\* with the username and the password as a run of '*' in its message;
\* another answer but 200 raises TokenExchangeException with the text of
\* the response; both leave the stored tokens and expiries as they were.
C21_RefusedExchange ==
  [][\A t \in Threads :
       (tpc[t] = "exchange" /\ tpc'[t] = "raised") =>
         /\ posts' = posts + 1
         /\ stored' = stored
         /\ \/ /\ lastExc' = "InvalidCredentialsException"
               /\ lastMsg'.username = username
               /\ AllStars(lastMsg'.password,
                           IF password.given THEN Len(password.str) ELSE 0)
               /\ password.given => lastMsg'.password # password.str
            \/ /\ lastExc' = "TokenExchangeException"
               /\ \E status_code \in StatusCodes \ {200, 401} :
                    lastMsg'.response = ResponseText(status_code)]_vars

\* A get_session of an object that holds tokens was refused with 401.
C21_Witness ==
  /\ tpc[User] = "raised"
  /\ lastExc = "InvalidCredentialsException"
  /\ lastMsg = UnableToExchange(username, password)
  /\ access_token # NoToken
  /\ password.given

\* C22: a constructor called without username or without password takes
\* both from the .netrc entry of the token endpoint, and raises
\* NoCredentialsException when there is no such entry, before any POST.
C22_ReadCredentials ==
  [][(/\ tpc[0] = "init" /\ tpc'[0] # "init"
      /\ (username = NotGiven \/ password = NotGiven)) =>
       IF netrc = "entry"
         THEN /\ username' = NetrcLogin
              /\ password' = NetrcPassword
              /\ tpc'[0] = "waiting"
         ELSE /\ tpc'[0] = "raised"
              /\ lastExc' = "NoCredentialsException"
              /\ posts' = 0]_vars

\* The two expiries.
expiries == <<access_token_expires, refresh_token_expires>>

\* C29: the expiries change only in the step that ends a run of
\* __ensure_tokens whose exchange succeeded and whose token was validated;
\* that step sets them to the token's exp and to iat + refresh_expires_in.
\* A run that fails to validate the token it exchanged leaves both as they
\* were, so that the next run exchanges again.
C29_ExpiryUpdate ==
  [][/\ expiries' # expiries =>
          \E t \in Threads :
            /\ tpc[t] = "decode" /\ tpc'[t] \in {"done", "ensured"}
            /\ call[t].posted
     /\ \A t \in Threads :
          (tpc[t] = "decode" /\ tpc'[t] \in {"done", "ensured"}
             /\ call[t].posted) =>
            /\ access_token_expires' = access_token.exp
            /\ refresh_token_expires' =
                 access_token.iat + call[t].refresh_expire_delta
     /\ \A t \in Threads :
          (tpc[t] \in {"validate", "decode"} /\ tpc'[t] = "raised"
             /\ call[t].posted) =>
            /\ expiries' = expiries
            /\ SelectGrant(access_token_expires', refresh_token_expires',
                           now') # None]_vars

\* A get_session call failed to validate the token it had exchanged, and a
\* later call has exchanged again and validated its token.
C29_Witness ==
  /\ lastExc = "TokenClientConnectionError"
  /\ \E t \in CallerThreads :
       /\ tpc[t] = "ensured"
       /\ call[t].posted
       /\ posts = MaxPosts
       /\ access_token_expires = access_token.exp

\* Where a thread stands inside the `with self.__lock:` block.
InsideWith == {"exchange", "validate", "decode"}

\* C38: the lock of the credentials object is held only by a thread that
\* is inside the block of __ensure_tokens: a thread that has left it, by
\* return or by any exception, does not hold it, so a thread that waits
\* for the lock waits for a thread that is still running the block.
C38_LockReleased ==
  /\ lock \in Threads \cup {Free}
  /\ \A t \in Threads : lock = t <=> tpc[t] \in InsideWith
  /\ \A t \in Threads :
       tpc[t] \in {"raised", "done", "ensured"} => lock # t

\* A get_session call has left the block with TokenExpiredSignatureError
\* and another thread has taken the lock since.
C38_Witness ==
  /\ lastExc = "TokenExpiredSignatureError"
  /\ \E t \in CallerThreads, u \in CallerThreads :
       /\ t # u
       /\ tpc[t] = "raised"
       /\ tpc[u] \in InsideWith
       /\ lock = u

\* `self.__refresh_token` is None, as __init__ leaves it.
NoRefreshToken == 0

\* C39: whenever the refresh-token expiry is not in the past, the stored
\* refresh token is one that an exchange answered 200 has returned; so a
\* refresh-token grant is never sent without a refresh token.
C39_RefreshTokenStored ==
  /\ ~(refresh_token_expires < now) =>
       /\ refresh_token # NoRefreshToken
       /\ refresh_token \in 1..posts
  /\ \A t \in Threads :
       (tpc[t] = "exchange" /\ call[t].grant_type = "refresh_token") =>
         /\ refresh_token # NoRefreshToken
         /\ refresh_token \in 1..posts

\* A get_session call is about to send a refresh-token grant.
C39_Witness ==
  \E t \in CallerThreads :
    /\ tpc[t] = "exchange"
    /\ call[t].grant_type = "refresh_token"
    /\ refresh_token # NoRefreshToken
    /\ ~(refresh_token_expires < now)

(***************************************************************************)
(* FeatureQuery and _FeatureIterator (query.py, lines 26-154).  The        *)
(* features of the server are numbered 1, 2, ... in server order and       *)
(* a URL is the number of the page it asks for.                            *)
(***************************************************************************)
MaxPageSize == 2

\* `self.next_url` is None.
NoUrl == 0

\* The sizes of the pages the server cuts the answer in.
Pagings == {p \in SeqsUpTo(0..MaxPageSize, MaxPages) : Len(p) > 0}

RECURSIVE Sum(_)
Sum(sizes) ==
  IF sizes = <<>> THEN 0 ELSE Head(sizes) + Sum(Tail(sizes))

\* The pages of a paging: page p holds the next sizes[p] features.
PagesOf(sizes) ==
  [p \in 1..Len(sizes) |->
     [k \in 1..sizes[p] |-> Sum(SubSeq(sizes, 1, p - 1)) + k]]

RECURSIVE Flatten(_)
Flatten(ps) ==
  IF ps = <<>> THEN <<>> ELSE Head(ps) \o Flatten(Tail(ps))

\* Every feature matching the search terms, in server order.
ServerOrder == Flatten(pages)

\* What one `__fetch_features` can meet: the page arrives and is
\* processed; `requests.get(...)` or `.json()` raises; the server answers
\* an error with a JSON body (no status check, line 77); `__fetch_odata` or
\* `__add_odata_to_features` raises after the page was appended.
FetchOutcomes == {"ok", "get_raises", "not_ok_json", "odata_raises"}

\* The outcomes in which `__fetch_features` raises.
FetchRaises == {"get_raises", "odata_raises"}

\* The outcomes in which the page came back from the server.
PageReceived == {"ok", "odata_raises"}

\* What the page at a URL may carry as totalResults (<<>>: nothing, null):
\* the first page the exact count or nothing; a later page, requested with
\* exactCount=0, nothing, the count or an estimate below it.
ReportedTotals(url) ==
  IF url = 1
    THEN {IF reportsTotal THEN <<Len(ServerOrder)>> ELSE <<>>}
    ELSE {<<>>, <<Len(ServerOrder)>>, <<0>>}

\* The exactCount parameter the href of a rel=next link may carry.
ExactCounts == {"1", "0"}

\* `self.next_url.replace("exactCount=1", "exactCount=0")`
Rewritten(exact) == IF exact = "1" THEN "0" ELSE exact

\* What `__fetch_odata` may return for a page that was appended: {} (the
\* answer carries no originalFilters), or products of the same search, seen
\* here by the ids of the buffered features among them.
OdataIds(buffer) == {{}, {buffer[i] : i \in DOMAIN buffer}}

\* `self.__set_next_url(res)`, lines 147-154.
NextLink == IF next_url < Len(pages) THEN next_url + 1 ELSE NoUrl

\* `__fetch_features` with `self.next_url is not None`, lines 77-85.
FetchFeatures(outcome) ==
  /\ outcome = "odata_raises" => Len(getlog) < MaxFetches
  /\ features' = IF outcome \in PageReceived
                   THEN features \o pages[next_url] ELSE features
  /\ \E odata \in OdataIds(features') :
       odata_added' = IF outcome = "ok"
                        THEN odata_added \cup odata ELSE odata_added
  /\ \E reported \in ReportedTotals(next_url) :
       total_results' = IF outcome \in PageReceived /\ reported # <<>>
                          THEN reported ELSE total_results
  /\ next_url' = CASE outcome = "ok" -> NextLink
                   [] outcome = "not_ok_json" -> NoUrl
                   [] OTHER -> next_url
  /\ \E echoed \in ExactCounts :
       exact_count' = CASE outcome = "ok" /\ NextLink # NoUrl ->
                             Rewritten(echoed)
                        [] outcome \in {"ok", "not_ok_json"} -> "none"
                        [] OTHER -> exact_count
  /\ getlog' = IF outcome \in PageReceived
                 THEN Append(getlog, next_url) ELSE getlog

\* A new `_FeatureIterator`, lines 27-29.
NewIterator == [index |-> 0, yielded |-> <<>>, ended |-> FALSE]

\* The arguments of an operation, the fetches it has made and how many of
\* them failed.
QCall(op, c, i) ==
  [op |-> op, cursor |-> c, index |-> i, fetches |-> 0, failed |-> 0,
   buffered |-> Len(features), known |-> total_results # <<>>]

\* How an operation ended.
QResult(kind, val) ==
  [op |-> qcall.op, cursor |-> qcall.cursor, index |-> qcall.index,
   fetches |-> qcall.fetches, buffered |-> qcall.buffered,
   known |-> qcall.known, kind |-> kind, val |-> val]

\* No operation is in progress; no operation has ended.
NoCall == [op |-> "none"]

NoResult == [op |-> "none", kind |-> "none"]

\* The indexes `q[i]` is called with.
Indexes == 0..(MaxPages * MaxPageSize)

\* FeatureQuery.__init__, lines 57-58.
InitQuery ==
  /\ \E sizes \in Pagings : pages = PagesOf(sizes)
  /\ reportsTotal \in BOOLEAN
  /\ features = <<>>
  /\ odata_added = {}
  /\ next_url = 1
  /\ exact_count = "1"
  /\ total_results = <<>>
  /\ cursors = <<>>
  /\ qpc = "idle" /\ qcall = NoCall /\ qresult = NoResult
  /\ getlog = <<>>
  /\ ExecIdle
  /\ BatchIdle
  /\ CredIdle
  /\ FileIdle
  /\ ProdIdle
  /\ UrlIdle
  /\ FilterIdle
  /\ DescIdle
  /\ MonIdle
  /\ RedirIdle

\* FeatureQuery.__iter__, line 61.
Iter ==
  /\ qpc = "idle"
  /\ Len(cursors) < MaxCursors
  /\ cursors' = Append(cursors, NewIterator)
  /\ UNCHANGED <<pages, reportsTotal, features, odata_added, next_url,
                 exact_count, total_results,
                 qpc, qcall, qresult, getlog>>
  /\ UNCHANGED notQuery

\* _FeatureIterator.__next__ calls `self.feature_query[self.index]`.
CallNext(c) ==
  /\ qpc = "idle"
  /\ ~cursors[c].ended
  /\ qpc' = "getitem"
  /\ qcall' = QCall("next", c, cursors[c].index)
  /\ qresult' = NoResult
  /\ UNCHANGED <<pages, reportsTotal, features, odata_added, next_url,
                 exact_count, total_results,
                 cursors, getlog>>
  /\ UNCHANGED notQuery

\* `q[i]`.
CallGetItem(i) ==
  /\ qpc = "idle"
  /\ qpc' = "getitem"
  /\ qcall' = QCall("getitem", 0, i)
  /\ qresult' = NoResult
  /\ UNCHANGED <<pages, reportsTotal, features, odata_added, next_url,
                 exact_count, total_results,
                 cursors, getlog>>
  /\ UNCHANGED notQuery

\* `len(q)`.
CallLen ==
  /\ qpc = "idle"
  /\ qpc' = "len"
  /\ qcall' = QCall("len", 0, 0)
  /\ qresult' = NoResult
  /\ UNCHANGED <<pages, reportsTotal, features, odata_added, next_url,
                 exact_count, total_results,
                 cursors, getlog>>
  /\ UNCHANGED notQuery

\* An operation fetches: the exception of a failed fetch reaches its caller.
FetchIn(outcome, after) ==
  /\ FetchFeatures(outcome)
  /\ qcall' = [qcall EXCEPT !.fetches = @ + 1,
                           !.failed = IF outcome = "ok" THEN @ ELSE @ + 1]
  /\ IF outcome \in FetchRaises
       THEN /\ qpc' = "idle"
            /\ qresult' = [QResult("error", 0) EXCEPT !.fetches = @ + 1]
       ELSE /\ qpc' = after
            /\ qresult' = qresult
  /\ UNCHANGED <<pages, reportsTotal, cursors>>
  /\ UNCHANGED notQuery

\* __getitem__, lines 70-71: one turn of the `while`.
GetItemFetch(outcome) ==
  /\ qpc = "getitem"
  /\ qcall.index >= Len(features) /\ next_url # NoUrl
  /\ FetchIn(outcome, "getitem")

\* __getitem__, line 73: `return self.features[index]`, and what __next__
\* makes of it (lines 40-43).
GetItemReturn ==
  /\ qpc = "getitem"
  /\ ~(qcall.index >= Len(features) /\ next_url # NoUrl)
  /\ qpc' = "idle"
  /\ IF qcall.index < Len(features)
       THEN /\ qresult' = QResult("value", features[qcall.index + 1])
            /\ cursors' =
                 IF qcall.op = "next"
                   THEN [cursors EXCEPT ![qcall.cursor] =
                           [index |-> @.index + 1,
                            yielded |-> Append(@.yielded,
                                               features[qcall.index + 1]),
                            ended |-> FALSE]]
                   ELSE cursors
       ELSE /\ qresult' = QResult(IF qcall.op = "next" THEN "StopIteration"
                                  ELSE "IndexError", 0)
            /\ cursors' =
                 IF qcall.op = "next"
                   THEN [cursors EXCEPT ![qcall.cursor].ended = TRUE]
                   ELSE cursors
  /\ UNCHANGED <<pages, reportsTotal, features, odata_added, next_url,
                 exact_count, total_results,
                 qcall, getlog>>
  /\ UNCHANGED notQuery

\* __len__, lines 64-65, with a URL left to fetch.
LenFetch(outcome) ==
  /\ qpc = "len"
  /\ total_results = <<>> /\ next_url # NoUrl
  /\ FetchIn(outcome, "lenret")

\* __len__, line 67: `return self.total_results`; len() raises TypeError
\* for None.
LenReturn ==
  /\ \/ qpc = "lenret"
     \/ qpc = "len" /\ ~(total_results = <<>> /\ next_url # NoUrl)
  /\ qpc' = "idle"
  /\ qresult' = IF total_results = <<>> THEN QResult("TypeError", 0)
                ELSE QResult("int", total_results[1])
  /\ UNCHANGED <<pages, reportsTotal, features, odata_added, next_url,
                 exact_count, total_results,
                 cursors, qcall, getlog>>
  /\ UNCHANGED notQuery

NextQuery ==
  \/ Iter
  \/ \E c \in 1..MaxCursors : c <= Len(cursors) /\ CallNext(c)
  \/ \E i \in Indexes : CallGetItem(i)
  \/ CallLen
  \/ \E outcome \in FetchOutcomes : GetItemFetch(outcome)
  \/ GetItemReturn
  \/ \E outcome \in FetchOutcomes : LenFetch(outcome)
  \/ LenReturn

SpecQuery == InitQuery /\ [][NextQuery]_vars

(***************************************************************************)
(* Claims about FeatureQuery's paging.                                     *)
(***************************************************************************)

\* C32: a page response that carries features makes the buffer strictly
\* longer, and total_results, once a non-negative integer, never decreases,
\* whatever the later pages report.
C32_BufferAndTotalGrow ==
  [][/\ (getlog' # getlog /\ pages[next_url] # <<>>) =>
          Len(features') > Len(features)
     /\ (total_results # <<>> /\ total_results[1] >= 0) =>
          /\ total_results' # <<>>
          /\ total_results'[1] >= total_results[1]]_vars

\* The keys of a feature as the server returned it.
ServedKeys == {"type", "id", "geometry", "properties"}

\* The keys of the i-th feature of the buffer.
BufferedKeys(i) ==
  ServedKeys \cup (IF features[i] \in odata_added THEN {"Checksum"} ELSE {})

\* C37: every feature of the buffer stays equal to the object the server
\* returned: no operation adds, removes or changes a field of it.
C37_FeaturesUnchanged ==
  \A i \in DOMAIN features : BufferedKeys(i) = ServedKeys

\* This step sends a page request (one turn of __fetch_features).
Requesting ==
  /\ qpc \in {"getitem", "len"}
  /\ qcall'.fetches = qcall.fetches + 1

\* C33: the request of the first page carries exactCount=1; a request sent
\* after a page response carries exactCount=0 and goes to the href of the
\* rel=next link of the response before it; once a response had no such
\* link no URL is left, for good.
C33_Paging ==
  [][/\ Requesting =>
          /\ next_url # NoUrl
          /\ IF getlog = <<>>
               THEN next_url = 1 /\ exact_count = "1"
               ELSE /\ exact_count = "0"
                    /\ next_url = getlog[Len(getlog)] + 1
     /\ next_url = NoUrl => next_url' = NoUrl /\ getlog' = getlog]_vars

(***************************************************************************)
(* _query_url and the validation of the search terms (query.py, lines      *)
(* 340-407).  A string is the sequence of its characters.                  *)
(***************************************************************************)
Digits == <<"0", "1", "2", "3", "4", "5", "6", "7", "8", "9">>

IsDigit(c) == \E d \in DOMAIN Digits : Digits[d] = c

DigitVal(c) == (CHOOSE d \in DOMAIN Digits : Digits[d] = c) - 1

AllDigits(v) == Len(v) > 0 /\ \A k \in DOMAIN v : IsDigit(v[k])

IsBracket(c) == c \in {"[", "]"}

RECURSIVE Decimal(_)
Decimal(v) ==
  IF v = <<>> THEN 0
  ELSE 10 * Decimal(SubSeq(v, 1, Len(v) - 1)) + DigitVal(v[Len(v)])

\* `int(search_term)`: an optional sign and digits, else ValueError.
IntOf(v) ==
  CASE AllDigits(v) -> [ok |-> TRUE, n |-> Decimal(v)]
    [] Len(v) > 1 /\ Head(v) = "-" /\ AllDigits(Tail(v)) ->
         [ok |-> TRUE, n |-> 0 - Decimal(Tail(v))]
    [] Len(v) > 1 /\ Head(v) = "+" /\ AllDigits(Tail(v)) ->
         [ok |-> TRUE, n |-> Decimal(Tail(v))]
    [] OTHER -> [ok |-> FALSE, n |-> 0]

\* The descriptor has no such bound, no pattern (None).
Absent == <<>>

NoPattern == ""

\* The patterns of the descriptor:
\*   "interval" ^(\[|\]|[0-9])?[0-9]+$|^[0-9]+?(\[|\])$
\*              |^(\[|\])[0-9]+,[0-9]+(\[|\])$
\*   "types"    ^(GRD|SLC)$
IntervalBoth(v) ==
  /\ Len(v) >= 5 /\ IsBracket(v[1]) /\ IsBracket(v[Len(v)])
  /\ \E k \in 3..(Len(v) - 2) :
       /\ v[k] = ","
       /\ AllDigits(SubSeq(v, 2, k - 1))
       /\ AllDigits(SubSeq(v, k + 1, Len(v) - 1))

\* `re.match(pattern, search_term)`.
Matches(pattern, v) ==
  CASE pattern = "interval" ->
         \/ AllDigits(v)
         \/ Len(v) > 1 /\ IsBracket(v[1]) /\ AllDigits(Tail(v))
         \/ Len(v) > 1 /\ IsBracket(v[Len(v)])
              /\ AllDigits(SubSeq(v, 1, Len(v) - 1))
         \/ IntervalBoth(v)
    [] pattern = "types" -> v \in {<<"G", "R", "D">>, <<"S", "L", "C">>}
    [] OTHER -> FALSE

\* describe_collection, lines 311-337: the parameters of the collection.
Description ==
  [maxRecords |-> [pattern |-> NoPattern, minInclusive |-> <<"1">>,
                   maxInclusive |-> <<"2">>],
   orbitNumber |-> [pattern |-> "interval", minInclusive |-> <<"1">>,
                    maxInclusive |-> Absent],
   productType |-> [pattern |-> "types", minInclusive |-> Absent,
                    maxInclusive |-> Absent]]

\* The keys and the values a caller passes.
TermKeys == {"maxRecords", "orbitNumber", "productType", "foo"}

TermStrings ==
  {<<"0">>, <<"1">>, <<"2">>, <<"3">>, <<"-", "1">>, <<"[", "1">>,
   <<"G", "R", "D">>, <<"G", "R", "D", "x">>}

TermLists == {<<<<"1">>, <<"2">>>>}

Str(v) == [list |-> FALSE, str |-> v]

List(l) == [list |-> TRUE, items |-> l]

TermValues == {Str(v) : v \in TermStrings} \cup {List(l) : l \in TermLists}

RECURSIVE Join(_)
Join(l) ==
  IF Len(l) = 1 THEN Head(l) ELSE Head(l) \o <<",">> \o Join(Tail(l))

\* _serialize_search_term, lines 356-366: a list is joined with commas, a
\* string is itself.
_serialize_search_term(value) ==
  IF value.list THEN Join(value.items) ELSE value.str

\* _assert_valid_key, lines 377-382.
ValidKey(key) == key \in DOMAIN Description

\* _assert_match_pattern, lines 385-391.
MatchPattern(val, pattern) == pattern = NoPattern \/ Matches(pattern, val)

\* The comparison of _assert_max_inclusive, line 406, preceded by the same
\* with the bound left out.
BelowMax(n, bound) == n < bound

WithinMax(n, bound) == n <= bound

\* What _validate_search_term raises, lines 370-374: the first of the four
\* checks that fails, or None.
_validate_search_term(key, val) ==
  CASE ~ValidKey(key) -> "AssertionError"
    [] ~MatchPattern(val, Description[key].pattern) -> "AssertionError"
    [] Description[key].minInclusive # Absent /\ ~IntOf(val).ok ->
         "ValueError"
    [] Description[key].minInclusive # Absent
         /\ ~(IntOf(val).n >= IntOf(Description[key].minInclusive).n) ->
         "AssertionError"
    [] Description[key].maxInclusive # Absent /\ ~IntOf(val).ok ->
         "ValueError"
    [] Description[key].maxInclusive # Absent
         /\ ~WithinMax(IntOf(val).n, IntOf(Description[key].maxInclusive).n)
         -> "AssertionError"
    [] OTHER -> None

\* The search terms: a dict, so no key twice.
SearchTerms ==
  {t \in SeqsUpTo(TermKeys \X TermValues, MaxTerms) :
     \A j \in DOMAIN t, k \in DOMAIN t : j # k => t[j][1] # t[k][1]}

\* f"{key}={val}".
KeyVal(key, val) == <<key, "=", val>>

InitUrl ==
  /\ search_terms \in SearchTerms
  /\ upc = "loop"
  /\ query_list = <<>>
  /\ uresult = None
  /\ ExecIdle
  /\ BatchIdle
  /\ CredIdle
  /\ FileIdle
  /\ ProdIdle
  /\ QueryIdle
  /\ FilterIdle
  /\ DescIdle
  /\ MonIdle
  /\ RedirIdle

\* _query_url, lines 344-347: one turn of the loop.
UrlTerm ==
  /\ upc = "loop"
  /\ Len(query_list) < Len(search_terms)
  /\ LET key == search_terms[Len(query_list) + 1][1]
         val == _serialize_search_term(search_terms[Len(query_list) + 1][2])
         exc == _validate_search_term(key, val)
     IN  IF exc # None
           THEN /\ upc' = "raised"
                /\ uresult' = exc
                /\ UNCHANGED query_list
           ELSE /\ query_list' = Append(query_list, KeyVal(key, val))
                /\ UNCHANGED <<upc, uresult>>
  /\ UNCHANGED search_terms
  /\ UNCHANGED notUrl

\* _query_url, lines 349-352: the URL.
UrlReturn ==
  /\ upc = "loop"
  /\ Len(query_list) = Len(search_terms)
  /\ upc' = "returned"
  /\ uresult' = "url"
  /\ UNCHANGED <<search_terms, query_list>>
  /\ UNCHANGED notUrl

\* The search request: `requests.get(self.next_url)` of the query built
\* with the URL (lines 58, 77).
UrlRequest ==
  /\ upc = "returned"
  /\ upc' = "requested"
  /\ UNCHANGED <<search_terms, query_list, uresult>>
  /\ UNCHANGED notUrl

NextUrl ==
  \/ UrlTerm
  \/ UrlReturn
  \/ UrlRequest

SpecUrl == InitUrl /\ [][NextUrl]_vars

(***************************************************************************)
(* Claims about the feature query.                                         *)
(***************************************************************************)
IsPrefix(s, t) == Len(s) <= Len(t) /\ s = SubSeq(t, 1, Len(s))

\* How often page p came back from the server.
TimesFetched(p) == Cardinality({k \in 1..Len(getlog) : getlog[k] = p})

\* C16: every cursor yields the features in server order, each once, and
\* ends only after the last one, whatever the other cursors did; and each
\* page of the server is fetched at most once.
C16_CursorsIndependent ==
  /\ \A c \in 1..Len(cursors) :
       /\ IsPrefix(cursors[c].yielded, ServerOrder)
       /\ cursors[c].ended => cursors[c].yielded = ServerOrder
  /\ \A p \in 1..Len(pages) : TimesFetched(p) <= 1

\* An operation `op` has ended, and nothing was called after it.
OpEnded(op) == qpc = "idle" /\ qresult.op = op

\* Every page of the server has come back.
AllFetched == \A p \in 1..Len(pages) : TimesFetched(p) >= 1

\* C17: q[i] makes no fetch for an index that is buffered, returns the
\* i-th feature in server order, and raises IndexError exactly when every
\* page has been fetched and the server has fewer than i+1 features.
C17_IndexLookup ==
  OpEnded("getitem") =>
    /\ qresult.buffered > qresult.index => qresult.fetches = 0
    /\ qresult.kind = "value" =>
         /\ qresult.index < Len(ServerOrder)
         /\ qresult.val = ServerOrder[qresult.index + 1]
    /\ qresult.kind \in {"value", "IndexError"} =>
         (qresult.kind = "IndexError" <=>
            AllFetched /\ Len(ServerOrder) <= qresult.index)

\* C18: len(q) makes one fetch when the total is unknown and none when it
\* is known, and returns an integer: the server's totalResults once it was
\* reported, -1 until then.
C18_Length ==
  OpEnded("len") =>
    /\ qresult.fetches = (IF qresult.known THEN 0 ELSE 1)
    /\ qresult.kind = "int"
    /\ qresult.val = (IF total_results = <<>> THEN 0 - 1
                      ELSE Len(ServerOrder))

\* C20: a page fetch that fails leaves the buffer, the total and the next
\* URL as they were, and the error of the first failed fetch of an
\* operation does not reach the caller: the fetch is retried.
C20_FetchRetried ==
  [][(qpc \in {"getitem", "len"} /\ qcall'.failed > qcall.failed) =>
       /\ features' = features
       /\ total_results' = total_results
       /\ next_url' = next_url
       /\ qresult'.kind = "error" => qcall'.failed > 1]_vars

(***************************************************************************)
(* Claims about the query URL.                                             *)
(***************************************************************************)
\* The value of a term as it is written in the URL.
Written(term) == _serialize_search_term(term[2])

\* The bounds of the descriptor as the claim reads them: the value of the
\* term is an integer that lies between them, the bounds included.
InBounds(key, val) ==
  /\ Description[key].minInclusive # Absent =>
       /\ IntOf(val).ok
       /\ IntOf(val).n >= IntOf(Description[key].minInclusive).n
  /\ Description[key].maxInclusive # Absent =>
       /\ IntOf(val).ok
       /\ IntOf(val).n <= IntOf(Description[key].maxInclusive).n

Acceptable(term) ==
  /\ term[1] \in DOMAIN Description
  /\ Description[term[1]].pattern # NoPattern =>
       Matches(Description[term[1]].pattern, Written(term))
  /\ InBounds(term[1], Written(term))

\* C19: the URL is built iff every search term has a key of the
\* descriptor, matches its pattern and lies within its bounds, and it then
\* holds every term as k=v; otherwise _query_url raises and no search
\* request is sent.
C19_TermsValidated ==
  /\ upc \in {"returned", "requested"} =>
       /\ \A j \in DOMAIN search_terms : Acceptable(search_terms[j])
       /\ query_list = [j \in DOMAIN search_terms |->
                          KeyVal(search_terms[j][1], Written(search_terms[j]))]
  /\ upc = "raised" =>
       /\ \E j \in DOMAIN search_terms : ~Acceptable(search_terms[j])
       /\ uresult \in {"AssertionError", "ValueError"}
  /\ upc = "loop" =>
       \A j \in 1..Len(query_list) : Acceptable(search_terms[j])

\* A URL was requested that holds a term at its upper bound.
C19_Witness ==
  /\ upc = "requested"
  /\ \E j \in DOMAIN search_terms :
       /\ search_terms[j][1] = "maxRecords"
       /\ Written(search_terms[j]) = Description.maxRecords.maxInclusive

(***************************************************************************)
(* filter_files(manifest_file, pattern, exclude): the paths of a manifest  *)
(* that a glob pattern selects. Strings are sequences of characters.       *)
(***************************************************************************)

MaxEntries == 2

\* str.lower(), on the letters of the model.
LowerChar(c) == IF c = "T" THEN "t" ELSE IF c = "J" THEN "j" ELSE c
lower(str) == [i \in 1..Len(str) |-> LowerChar(str[i])]

\* fnmatch.fnmatch(name, pat) on POSIX, where os.path.normcase changes
\* nothing: `*` matches any run of characters, `?` any one character, any
\* other character itself.
RECURSIVE fnmatch(_, _)
fnmatch(name, pat) ==
  IF pat = <<>> THEN name = <<>>
  ELSE IF Head(pat) = "*"
    THEN \/ fnmatch(name, Tail(pat))
         \/ name # <<>> /\ fnmatch(Tail(name), pat)
  ELSE IF name = <<>> THEN FALSE
  ELSE /\ Head(pat) = "?" \/ Head(pat) = Head(name)
       /\ fnmatch(Tail(name), Tail(pat))

\* The file names of the model's products.
FileNames ==
  { <<"T", ".", "j">>, <<"b", ".", "j">>, <<"m", ".", "x">> }

FilterPatterns ==
  { <<"*", "T", ".", "j">>, <<"*", "t", ".", "j">>, <<"*", ".", "j">>,
    <<"?", ".", "x">>, <<"m", "*">> }

\* How a manifest writes the path of a file: manifest.safe as href with a
\* leading "./", manifest.xml with the product's name as first component.
WrittenPath(basename, name) ==
  IF basename = "manifest.safe" THEN <<".", "/">> \o name
                                ELSE <<"P", "/">> \o name

Manifests ==
  { [basename |-> b, entries |-> [i \in DOMAIN q |-> WrittenPath(b, q[i])]] :
      b \in {"manifest.safe", "manifest.xml"},
      q \in SeqsUpTo(FileNames, MaxEntries) }

\* path[2:]
WithoutDotSlash(href) == SubSeq(href, 3, Len(href))

\* "/".join(path.split("/")[1:])
WithoutFirstComponent(text) ==
  IF \E i \in 1..Len(text) : text[i] = "/"
    THEN SubSeq(text, 1 + (CHOOSE i \in 1..Len(text) :
                             /\ text[i] = "/"
                             /\ \A j \in 1..(i - 1) : text[j] # "/"),
                Len(text))
    ELSE <<>>

\* The path of an entry within the product, as filter_files computes it.
PathOf(basename, entry) ==
  IF basename = "manifest.safe" THEN WithoutDotSlash(entry)
                                ELSE WithoutFirstComponent(entry)

\* match = fnmatch.fnmatch(path.lower(), pattern)
match(path, pat) == fnmatch(lower(path), pat)

\* `if match and not exclude or exclude and not match`
Keep(m, excl) == (m /\ ~excl) \/ (excl /\ ~m)

InitFilter ==
  /\ manifest_file \in Manifests
  /\ fpattern \in FilterPatterns
  /\ exclude \in BOOLEAN
  /\ xpc = "called"
  /\ elems = 0
  /\ paths = <<>>
  /\ ExecIdle
  /\ BatchIdle
  /\ CredIdle
  /\ FileIdle
  /\ ProdIdle
  /\ QueryIdle
  /\ UrlIdle
  /\ DescIdle
  /\ MonIdle
  /\ RedirIdle

\* Lines 58-59: the manifest is parsed, the loop over its entries starts.
FilterParse ==
  /\ xpc = "called"
  /\ xpc' = "loop"
  /\ UNCHANGED <<manifest_file, fpattern, exclude, elems, paths>>
  /\ UNCHANGED notFilter

\* One turn of the loop over the dataObject elements, in document order.
FilterElem ==
  /\ xpc = "loop"
  /\ elems < Len(manifest_file.entries)
  /\ LET path == PathOf(manifest_file.basename,
                        manifest_file.entries[elems + 1])
     IN  paths' = IF Keep(match(path, fpattern), exclude)
                    THEN Append(paths, path)
                    ELSE paths
  /\ elems' = elems + 1
  /\ UNCHANGED <<manifest_file, fpattern, exclude, xpc>>
  /\ UNCHANGED notFilter

\* `return paths`
FilterReturn ==
  /\ xpc = "loop"
  /\ elems = Len(manifest_file.entries)
  /\ xpc' = "returned"
  /\ UNCHANGED <<manifest_file, fpattern, exclude, elems, paths>>
  /\ UNCHANGED notFilter

NextFilter ==
  \/ FilterParse
  \/ FilterElem
  \/ FilterReturn

SpecFilter == InitFilter /\ [][NextFilter]_vars

(***************************************************************************)
(* Claims about filter_files.                                              *)
(***************************************************************************)

\* The paths of the manifest's files within the product, in document order.
ManifestPaths ==
  [i \in DOMAIN manifest_file.entries |->
     PathOf(manifest_file.basename, manifest_file.entries[i])]

\* The glob pattern matches the path, XOR exclude.
Selected(path) == fnmatch(path, fpattern) # exclude

\* C26: filter_files returns the paths of the manifest that the glob
\* pattern matches (that it does not match, with exclude), whatever the
\* case of the pattern's letters, in document order.
C26_GlobXorExclude ==
  xpc = "returned" => paths = SelectSeq(ManifestPaths, Selected)

(***************************************************************************)
(* describe_collection(collection) and the cache of _get_describe_doc,     *)
(* called by concurrent threads.                                           *)
(***************************************************************************)

MaxDescribes == 3

DescribeThreads == 1..2
Collections == {"Sentinel1", "Sentinel2"}

\* The body of a response: the describe document of a collection, a body
\* that is no describe document (an error page), or no body at all.
Document(c) == [kind |-> "describe", of |-> c]
OtherBody == [kind |-> "other", of |-> ""]
EmptyBody == [kind |-> "empty", of |-> ""]
\* `_describe_docs.get(collection)` of a collection that has no entry.
NoDocument == [kind |-> "absent", of |-> ""]

\* What the server may answer to the request for a collection's document;
\* status 0 stands for a request that raised.
DescribeAnswers(c) ==
  { [status |-> 200, content |-> Document(c)],
    [status |-> 200, content |-> OtherBody],
    [status |-> 200, content |-> EmptyBody],
    [status |-> 404, content |-> OtherBody],
    [status |-> 503, content |-> OtherBody],
    [status |-> 0, content |-> EmptyBody] }

NoAnswer == [status |-> 0, content |-> NoDocument]

\* `if _describe_docs.get(collection)`: an entry that is not empty.
Truthy(doc) == doc.kind \notin {"absent", "empty"}

\* ElementTree.fromstring(content) and tree.find(...) find the Url node.
Parses(doc) == doc.kind = "describe"

\* The descriptor describe_collection builds from a document, lines
\* 316-337.
Descriptor(doc) == [parameters_of |-> doc.of]
NoDescriptor == [parameters_of |-> ""]

NewDescribe ==
  [collection |-> "", later |-> FALSE, requested |-> FALSE,
   stored |-> FALSE, res |-> NoAnswer, content |-> NoDocument,
   result |-> NoDescriptor]

InitDescribe ==
  /\ _describe_docs = [c \in Collections |-> NoDocument]
  /\ dpc = [t \in DescribeThreads |-> "idle"]
  /\ dcall = [t \in DescribeThreads |-> NewDescribe]
  /\ dreqs = 0
  /\ described = [c \in Collections |-> NoDescriptor]
  /\ ExecIdle
  /\ BatchIdle
  /\ CredIdle
  /\ FileIdle
  /\ ProdIdle
  /\ QueryIdle
  /\ UrlIdle
  /\ FilterIdle
  /\ MonIdle
  /\ RedirIdle

\* A thread calls describe_collection(c); `later` records that a describe
\* of c had succeeded before.
DescribeCall(t, c) ==
  /\ dpc[t] \in {"idle", "returned", "raised"}
  /\ dpc' = [dpc EXCEPT ![t] = "lookup"]
  /\ dcall' = [dcall EXCEPT ![t] =
       [NewDescribe EXCEPT !.collection = c,
                           !.later = described[c] # NoDescriptor]]
  /\ UNCHANGED <<_describe_docs, dreqs, described>>
  /\ UNCHANGED notDesc

\* _get_describe_doc, lines 414-415: the cache is looked up.
DescribeLookup(t) ==
  /\ dpc[t] = "lookup"
  /\ IF Truthy(_describe_docs[dcall[t].collection])
       THEN /\ dpc' = [dpc EXCEPT ![t] = "parse"]
            /\ dcall' = [dcall EXCEPT ![t].content =
                           _describe_docs[dcall[t].collection]]
       ELSE /\ dpc' = [dpc EXCEPT ![t] = "get"]
            /\ UNCHANGED dcall
  /\ UNCHANGED <<_describe_docs, dreqs, described>>
  /\ UNCHANGED notDesc

\* Lines 417-427: requests.get, which may raise, and the assert on the
\* status.
DescribeGet(t) ==
  /\ dpc[t] = "get"
  /\ dreqs < MaxDescribes
  /\ dreqs' = dreqs + 1
  /\ \E res \in DescribeAnswers(dcall[t].collection) :
       /\ dcall' = [dcall EXCEPT ![t].res = res, ![t].requested = TRUE]
       /\ dpc' = [dpc EXCEPT ![t] = IF res.status = 200 THEN "store"
                                                        ELSE "raised"]
  /\ UNCHANGED <<_describe_docs, described>>
  /\ UNCHANGED notDesc

\* Lines 429-430: the content is stored and read back.
DescribeStore(t) ==
  /\ dpc[t] = "store"
  /\ _describe_docs' =
       [_describe_docs EXCEPT ![dcall[t].collection] = dcall[t].res.content]
  /\ dcall' = [dcall EXCEPT ![t].stored = TRUE,
                            ![t].content = dcall[t].res.content]
  /\ dpc' = [dpc EXCEPT ![t] = "parse"]
  /\ UNCHANGED <<dreqs, described>>
  /\ UNCHANGED notDesc

\* describe_collection, lines 316-337: the document is parsed and the
\* descriptor returned; a body that is no describe document raises.
DescribeParse(t) ==
  /\ dpc[t] = "parse"
  /\ IF Parses(dcall[t].content)
       THEN /\ dpc' = [dpc EXCEPT ![t] = "returned"]
            /\ dcall' = [dcall EXCEPT ![t].result =
                           Descriptor(dcall[t].content)]
            /\ described' =
                 IF described[dcall[t].collection] = NoDescriptor
                   THEN [described EXCEPT ![dcall[t].collection] =
                           Descriptor(dcall[t].content)]
                   ELSE described
       ELSE /\ dpc' = [dpc EXCEPT ![t] = "raised"]
            /\ UNCHANGED <<dcall, described>>
  /\ UNCHANGED <<_describe_docs, dreqs>>
  /\ UNCHANGED notDesc

NextDescribe ==
  \/ \E t \in DescribeThreads, c \in Collections : DescribeCall(t, c)
  \/ \E t \in DescribeThreads : DescribeLookup(t)
  \/ \E t \in DescribeThreads : DescribeGet(t)
  \/ \E t \in DescribeThreads : DescribeStore(t)
  \/ \E t \in DescribeThreads : DescribeParse(t)

SpecDescribe == InitDescribe /\ [][NextDescribe]_vars

(***************************************************************************)
(* Claims about the descriptor cache.                                      *)
(***************************************************************************)

\* C34: a describe of a collection that starts after a describe of it has
\* succeeded sends no request and returns the same descriptor; a describe
\* that fails has stored nothing in the cache; and whatever the
\* interleaving of the calls, the entry of a collection is the one a
\* sequential fill produces, the collection's document.
C34_DescriptorCache ==
  /\ \A t \in DescribeThreads :
       dcall[t].later =>
         /\ ~dcall[t].requested
         /\ dpc[t] # "raised"
         /\ dpc[t] = "returned" =>
              dcall[t].result = described[dcall[t].collection]
  /\ \A t \in DescribeThreads : dpc[t] = "raised" => ~dcall[t].stored
  /\ \A c \in Collections :
       _describe_docs[c] \in {NoDocument, Document(c)}

(***************************************************************************)
(* StatusMonitor and the Status handles of concurrent downloads:           *)
(* `with monitor.status() as status` in download_file and                  *)
(* download_feature, and the monitor thread that prints the counts.        *)
(***************************************************************************)

MaxHandles == 3

DownloadThreads == 1..2

\* A thread without handle.
NoHandle == [id |-> 0, at |-> "outside"]

\* list.remove(x): the list without the first element equal to x.
Remove(list, x) ==
  LET first == CHOOSE i \in 1..Len(list) :
                 list[i] = x /\ \A j \in 1..(i - 1) : list[j] # x
  IN  SubSeq(list, 1, first - 1) \o SubSeq(list, first + 1, Len(list))

InitMonitor ==
  /\ m_status = <<>>
  /\ m_done = <<>>
  /\ handle = [t \in DownloadThreads |-> NoHandle]
  /\ handles = 0
  /\ drawn = <<0, 0>>
  /\ ExecIdle
  /\ BatchIdle
  /\ CredIdle
  /\ FileIdle
  /\ ProdIdle
  /\ QueryIdle
  /\ UrlIdle
  /\ FilterIdle
  /\ DescIdle
  /\ RedirIdle

\* StatusMonitor.status(), lines 84-86, and Status.__enter__: the handle is
\* created and appended to __status; the thread enters the `with` block.
StatusEnter(t) ==
  /\ handle[t].at = "outside"
  /\ handles < MaxHandles
  /\ handles' = handles + 1
  /\ m_status' = Append(m_status, handles + 1)
  /\ handle' = [handle EXCEPT ![t] = [id |-> handles + 1, at |-> "inside"]]
  /\ UNCHANGED <<m_done, drawn>>
  /\ UNCHANGED notMon

\* The `with` block is left, by return or by an exception: Status.__exit__
\* calls remove_status, whose line 92 appends the handle to __done.
StatusExit(t) ==
  /\ handle[t].at = "inside"
  /\ \E how \in {"return", "exception"} :
       handle' = [handle EXCEPT ![t].at = "removing"]
  /\ m_done' = Append(m_done, handle[t].id)
  /\ UNCHANGED <<m_status, handles, drawn>>
  /\ UNCHANGED notMon

\* remove_status, line 93: the handle is removed from __status.
StatusRemove(t) ==
  /\ handle[t].at = "removing"
  /\ m_status' = Remove(m_status, handle[t].id)
  /\ handle' = [handle EXCEPT ![t] = NoHandle]
  /\ UNCHANGED <<m_done, handles, drawn>>
  /\ UNCHANGED notMon

\* The monitor thread's __draw, lines 150-151: it prints how many files
\* are in progress and how many are done.
Draw ==
  /\ drawn' = <<Len(m_status), Len(m_done)>>
  /\ drawn' # drawn
  /\ UNCHANGED <<m_status, m_done, handle, handles>>
  /\ UNCHANGED notMon

NextMonitor ==
  \/ \E t \in DownloadThreads : StatusEnter(t)
  \/ \E t \in DownloadThreads : StatusExit(t)
  \/ \E t \in DownloadThreads : StatusRemove(t)
  \/ Draw

SpecMonitor == InitMonitor /\ [][NextMonitor]_vars

(***************************************************************************)
(* Claims about the status monitor.                                        *)
(***************************************************************************)

\* How often a handle occurs in a list.
Occurrences(list, h) == Cardinality({i \in 1..Len(list) : list[i] = h})

\* C35: every handle is in __status from its creation until its scope is
\* left and in __done from then on, once: at all times a handle is in
\* exactly one of the two lists, whatever the interleaving of the
\* downloads.
C35_OneListAtATime ==
  /\ \A h \in 1..handles :
       Occurrences(m_status, h) + Occurrences(m_done, h) = 1
  /\ \A t \in DownloadThreads :
       handle[t].at = "inside" => Occurrences(m_status, handle[t].id) = 1

(***************************************************************************)
(* _follow_redirect(url, session).                                         *)
(***************************************************************************)

MaxUrls == 3
MaxHeads == 4

RedirectUrls == 1..MaxUrls

\* A response without Location header.
NoLocation == 0

\* What a HEAD of a URL may answer: a status, and with a status of the
\* 3xx class a Location header or none.
HeadStatusCodes == {200, 299, 300, 399, 400}
HeadResponses ==
  { [status_code |-> c, location |-> l] :
      c \in HeadStatusCodes, l \in RedirectUrls \cup {NoLocation} }

\* A test that misses status 300 (the fault InRedirectRange is tested
\* against).
AboveThreeHundred(c) == c \in 301..399
\* `response.status_code in range(300, 400)`
InRedirectRange(c) == c \in 300..399

\* The answers of the servers of the model.
Servers ==
  { sv \in [RedirectUrls -> HeadResponses] :
      \A u \in RedirectUrls :
        ~(300 <= sv[u].status_code /\ sv[u].status_code < 400) =>
          sv[u].location = NoLocation }

InitRedirect ==
  /\ server \in Servers
  /\ rinput \in RedirectUrls
  /\ rurl = rinput
  /\ rresponse = <<>>
  /\ rpc = "called"
  /\ rheads = <<>>
  /\ rresult = 0
  /\ ExecIdle
  /\ BatchIdle
  /\ CredIdle
  /\ FileIdle
  /\ ProdIdle
  /\ QueryIdle
  /\ UrlIdle
  /\ FilterIdle
  /\ DescIdle
  /\ MonIdle

\* `response = session.head(url, allow_redirects=False)`, lines 312 and 315.
SessionHead ==
  /\ rpc \in {"called", "head"}
  /\ Len(rheads) < MaxHeads
  /\ rheads' = Append(rheads, rurl)
  /\ rresponse' = <<server[rurl]>>
  /\ rpc' = "test"
  /\ UNCHANGED <<server, rinput, rurl, rresult>>
  /\ UNCHANGED notRedir

\* Lines 313-314: the test of the `while`, and `url = response.headers[
\* "Location"]`, a KeyError when the header is missing.
FollowLocation ==
  /\ rpc = "test"
  /\ InRedirectRange(rresponse[1].status_code)
  /\ IF rresponse[1].location = NoLocation
       THEN /\ rpc' = "KeyError"
            /\ UNCHANGED rurl
       ELSE /\ rpc' = "head"
            /\ rurl' = rresponse[1].location
  /\ UNCHANGED <<server, rinput, rresponse, rheads, rresult>>
  /\ UNCHANGED notRedir

\* Line 317: `return url`.
RedirectReturn ==
  /\ rpc = "test"
  /\ ~InRedirectRange(rresponse[1].status_code)
  /\ rpc' = "returned"
  /\ rresult' = rurl
  /\ UNCHANGED <<server, rinput, rurl, rresponse, rheads>>
  /\ UNCHANGED notRedir

NextRedirect ==
  \/ SessionHead
  \/ FollowLocation
  \/ RedirectReturn

SpecRedirect == InitRedirect /\ [][NextRedirect]_vars

(***************************************************************************)
(* Claims about _follow_redirect.                                          *)
(***************************************************************************)

\* The status is of the 3xx class.
IsRedirection(u) ==
  300 <= server[u].status_code /\ server[u].status_code <= 399

\* C36: _follow_redirect sends its HEAD requests along the chain of
\* Location headers that starts at the input URL; when it returns, after
\* n hops, it has sent n + 1 of them, every URL but the last answered with
\* a status in 300..399, the last did not, and the last is returned (the
\* input URL when n = 0).
C36_FollowsChain ==
  /\ rheads # <<>> => rheads[1] = rinput
  /\ \A i \in 1..(Len(rheads) - 1) :
       /\ IsRedirection(rheads[i])
       /\ rheads[i + 1] = server[rheads[i]].location
  /\ rpc = "returned" =>
       /\ rheads # <<>>
       /\ ~IsRedirection(rheads[Len(rheads)])
       /\ rresult = rheads[Len(rheads)]
  /\ rpc = "head" => IsRedirection(rheads[Len(rheads)])

\* _follow_redirect has returned after two hops, the first of status 300.
C36_Witness ==
  /\ rpc = "returned"
  /\ Len(rheads) = 3
  /\ server[rinput].status_code = 300
  /\ rresult # rinput

====
